---- MODULE Spec2Model ----
(***************************************************************************)
(* A model of the ax-chess rules engine: Board, the six Piece variants,    *)
(* MoveValidator and the Game orchestrator.                                *)
(*                                                                         *)
(* Squares are addressed as in the source: squares[rank][file], rank and   *)
(* file in 0..7, rank 0 = rank "1" (white's home rank).                    *)
(*                                                                         *)
(* Three-valued answers.  Board.isSquareAttacked asks every piece of the   *)
(* attacking colour for getPossibleMoves, and King.getPossibleMoves asks   *)
(* Board.isKingInCheck for its own colour before it lists castling moves.  *)
(* The board is not modified while such a query runs, so a call            *)
(* isKingInCheck(c) that is reached again while isKingInCheck(c) is still  *)
(* on the call stack repeats itself for ever: the JavaScript engine ends   *)
(* it with a RangeError (stack overflow), an exception.  Queries therefore *)
(* answer "T", "F" or "D" (the call throws), and carry the set `active` of *)
(* the colours whose isKingInCheck call is on the stack.                   *)
(***************************************************************************)
EXTENDS Integers, Sequences, FiniteSets, TLC

VARIABLES
    board,        \* Game.board: the Board object (record of its fields)
    status,       \* Game.status
    currentTurn,  \* Game.currentTurn
    result,       \* Game.result
    resultReason, \* Game.resultReason
    moves,        \* Game.moves: the move history
    moveNumber,   \* Game.moveNumber
    players,      \* Game.players[color].timeRemaining
    nCalls,       \* number of public calls made on the Game so far
    last,         \* the request and the returned value of the latest call
    twin          \* the id of this Game, and the other Game (its clone, or the
                  \* Game it was cloned from) when there is one

vars == <<board, status, currentTurn, result, resultReason, moves, moveNumber,
          players, nCalls, last, twin>>

----------------------------------------------------------------------------
(* shared/constants/chess-notation *)

FILES == <<"a", "b", "c", "d", "e", "f", "g", "h">>
RANKS == <<"1", "2", "3", "4", "5", "6", "7", "8">>

GAME_RESULTS ==
    [WHITE_WINS |-> "1-0", BLACK_WINS |-> "0-1", DRAW |-> "1/2-1/2", ONGOING |-> "*"]

\* positionToAlgebraic(file, rank): the two characters of the square's name.
\* (Pawn.canCaptureEnPassant builds the same two characters with fromCharCode.)
positionToAlgebraic(file, rank) == <<FILES[file + 1], RANKS[rank + 1]>>

Opp(color) == IF color = "white" THEN "black" ELSE "white"

Abs(x) == IF x < 0 THEN 0 - x ELSE x
Sign(x) == IF x = 0 THEN 0 ELSE IF x < 0 THEN 0 - 1 ELSE 1
Max(x, y) == IF x >= y THEN x ELSE y
Min(x, y) == IF x <= y THEN x ELSE y

\* the lists of a list of lists, joined in order
RECURSIVE Concat(_)
Concat(ss) ==
    IF Len(ss) = 0 THEN <<>>
    ELSE IF Len(ss) = 1 THEN ss[1]
    ELSE LET half == Len(ss) \div 2
         IN Concat(SubSeq(ss, 1, half)) \o Concat(SubSeq(ss, half + 1, Len(ss)))

----------------------------------------------------------------------------
(* Piece *)

\* null: an empty cell
NoPiece == [type |-> "none", color |-> "none", rank |-> 0 - 1, file |-> 0 - 1,
            hasMoved |-> FALSE]

\* new X(color, rank, file)
NewPiece(type, color, rank, file) ==
    [type |-> type, color |-> color, rank |-> rank, file |-> file, hasMoved |-> FALSE]

\* Piece.clone
PieceClone(p) ==
    [NewPiece(p.type, p.color, p.rank, p.file) EXCEPT !.hasMoved = p.hasMoved]

\* a candidate move as the generators list it
Mv(toRank, toFile, promotionPiece) ==
    [toRank |-> toRank, toFile |-> toFile, promotionPiece |-> promotionPiece]

HasDest(list, rank, file) ==
    \E k \in 1..Len(list) : list[k].toRank = rank /\ list[k].toFile = file

----------------------------------------------------------------------------
(* Board: queries *)

isValidPosition(rank, file) == rank >= 0 /\ rank < 8 /\ file >= 0 /\ file < 8

\* getPiece.  The only out-of-range reads the engine makes have an out-of-range
\* file (a castling destination); JavaScript answers undefined, which the callers
\* treat as "no piece".
getPiece(b, rank, file) ==
    IF isValidPosition(rank, file) THEN b.squares[rank][file] ELSE NoPiece

\* setPiece: the cell takes the piece and the piece takes the cell's coordinates.
\* A write outside files 0..7 lands beyond the scanned part of the row.
setPiece(b, piece, rank, file) ==
    IF isValidPosition(rank, file)
    THEN [b EXCEPT !.squares[rank][file] =
            IF piece = NoPiece THEN NoPiece
            ELSE [piece EXCEPT !.rank = rank, !.file = file]]
    ELSE b

removePiece(b, rank, file) == setPiece(b, NoPiece, rank, file)

isEmpty(b, rank, file) == isValidPosition(rank, file) /\ b.squares[rank][file] = NoPiece

isOccupiedBy(b, rank, file, color) ==
    LET piece == getPiece(b, rank, file) IN piece # NoPiece /\ piece.color = color

\* The cells in the order every double loop of the source visits them.
CellAt(b, i) == b.squares[i \div 8][i % 8]

\* The occupied cells of one colour, in scan order.
PiecesOf(b, color) ==
    LET cells == {i \in 0..63 : CellAt(b, i) # NoPiece /\ CellAt(b, i).color = color}
    IN [k \in 1..Cardinality(cells) |->
            CHOOSE i \in cells : Cardinality({j \in cells : j < i}) = k - 1]

\* findKing: the first king of the colour in scan order, as a cell index; -1 for null.

findKing(b, color) ==
    LET ks == {i \in 0..63 : CellAt(b, i).type = "K" /\ CellAt(b, i).color = color}
    IN IF ks = {} THEN 0 - 1 ELSE CHOOSE i \in ks : \A j \in ks : i <= j

----------------------------------------------------------------------------
(* Piece variants: geometry *)

isDiagonalMove(p, toRank, toFile) ==
    Abs(toRank - p.rank) = Abs(toFile - p.file) /\ Abs(toRank - p.rank) > 0

isStraightMove(p, toRank, toFile) ==
    \/ (toRank = p.rank /\ toFile # p.file)
    \/ (toFile = p.file /\ toRank # p.rank)

\* Piece.isPathClear: every cell strictly between the piece and the destination
\* is empty (called for straight and diagonal destinations only).
isPathClear(p, toRank, toFile, b) ==
    LET rankStep == Sign(toRank - p.rank)
        fileStep == Sign(toFile - p.file)
        n == Max(Abs(toRank - p.rank), Abs(toFile - p.file))
    IN \A k \in 1..(n - 1) : isEmpty(b, p.rank + k * rankStep, p.file + k * fileStep)

\* The ray loop shared by Rook, Bishop and Queen.getPossibleMoves.
RECURSIVE Ray(_, _, _, _, _)
Ray(b, p, rankDirection, fileDirection, distance) ==
    LET toRank == p.rank + rankDirection * distance
        toFile == p.file + fileDirection * distance
    IN IF distance >= 8 \/ ~isValidPosition(toRank, toFile) THEN <<>>
       ELSE LET targetPiece == getPiece(b, toRank, toFile) IN
            IF targetPiece = NoPiece
            THEN <<Mv(toRank, toFile, "")>>
                 \o Ray(b, p, rankDirection, fileDirection, distance + 1)
            ELSE IF targetPiece.color # p.color THEN <<Mv(toRank, toFile, "")>>
            ELSE <<>>

Rays(b, p, directions) ==
    Concat([d \in 1..Len(directions) |->
              Ray(b, p, directions[d][1], directions[d][2], 1)])

RookDirections == <<<<0 - 1, 0>>, <<1, 0>>, <<0, 0 - 1>>, <<0, 1>>>>
BishopDirections == <<<<0 - 1, 0 - 1>>, <<0 - 1, 1>>, <<1, 0 - 1>>, <<1, 1>>>>
QueenDirections ==
    <<<<0 - 1, 0 - 1>>, <<0 - 1, 0>>, <<0 - 1, 1>>, <<0, 0 - 1>>, <<0, 1>>,
      <<1, 0 - 1>>, <<1, 0>>, <<1, 1>>>>
KingDirections == QueenDirections
KnightOffsets ==
    <<<<0 - 2, 0 - 1>>, <<0 - 2, 1>>, <<0 - 1, 0 - 2>>, <<0 - 1, 2>>,
      <<1, 0 - 2>>, <<1, 2>>, <<2, 0 - 1>>, <<2, 1>>>>

RookMoves(b, p) == Rays(b, p, RookDirections)
BishopMoves(b, p) == Rays(b, p, BishopDirections)
QueenMoves(b, p) == Rays(b, p, QueenDirections)

KnightMoves(b, p) ==
    Concat([k \in 1..Len(KnightOffsets) |->
        LET toRank == p.rank + KnightOffsets[k][1]
            toFile == p.file + KnightOffsets[k][2]
        IN IF isValidPosition(toRank, toFile)
              /\ (getPiece(b, toRank, toFile) = NoPiece
                  \/ getPiece(b, toRank, toFile).color # p.color)
           THEN <<Mv(toRank, toFile, "")>> ELSE <<>>])

(* Pawn *)
PawnDirection(p) == IF p.color = "white" THEN 1 ELSE 0 - 1
PawnPromotionRank(p) == IF p.color = "white" THEN 7 ELSE 0
canPromote(p, toRank) == toRank = PawnPromotionRank(p)
PromotionChoices == <<"Q", "R", "B", "N">>

\* Pawn.canCaptureEnPassant
canCaptureEnPassant(p, toRank, toFile, b) ==
    /\ b.enPassantTarget = positionToAlgebraic(toFile, toRank)
    /\ LET adjacentPawn == getPiece(b, p.rank, toFile)
       IN adjacentPawn # NoPiece /\ adjacentPawn.type = "P"
          /\ adjacentPawn.color # p.color

\* Pawn.isValidMove
PawnIsValidMove(p, toRank, toFile, b) ==
    LET rankDiff == toRank - p.rank
        fileDiff == Abs(toFile - p.file)
        direction == PawnDirection(p)
    IN IF rankDiff * direction <= 0 THEN FALSE
       ELSE IF rankDiff = direction /\ fileDiff = 0 THEN isEmpty(b, toRank, toFile)
       ELSE IF rankDiff = 2 * direction /\ fileDiff = 0 /\ ~p.hasMoved
            THEN isEmpty(b, p.rank + direction, p.file) /\ isEmpty(b, toRank, toFile)
       ELSE IF rankDiff = direction /\ fileDiff = 1
            THEN LET targetPiece == getPiece(b, toRank, toFile) IN
                 \/ (targetPiece # NoPiece /\ targetPiece.color # p.color)
                 \/ canCaptureEnPassant(p, toRank, toFile, b)
       ELSE FALSE

PawnWithPromotions(p, toRank, toFile) ==
    IF canPromote(p, toRank)
    THEN [k \in 1..Len(PromotionChoices) |-> Mv(toRank, toFile, PromotionChoices[k])]
    ELSE <<Mv(toRank, toFile, "")>>

PawnCaptureMoves(b, p, fileOffset) ==
    LET captureFile == p.file + fileOffset
        captureRank == p.rank + PawnDirection(p)
    IN IF ~isValidPosition(captureRank, captureFile) THEN <<>>
       ELSE LET targetPiece == getPiece(b, captureRank, captureFile) IN
            IF targetPiece # NoPiece /\ targetPiece.color # p.color
            THEN PawnWithPromotions(p, captureRank, captureFile)
            ELSE IF canCaptureEnPassant(p, captureRank, captureFile, b)
            THEN <<Mv(captureRank, captureFile, "")>>
            ELSE <<>>

\* Pawn.getPossibleMoves: the forward steps come first, then the two captures.
PawnMovesForwardOnly(b, p) ==
    LET oneStepRank == p.rank + PawnDirection(p)
        twoStepRank == p.rank + 2 * PawnDirection(p)
    IN IF isValidPosition(oneStepRank, p.file) /\ isEmpty(b, oneStepRank, p.file)
       THEN PawnWithPromotions(p, oneStepRank, p.file)
            \o (IF ~p.hasMoved /\ isValidPosition(twoStepRank, p.file)
                   /\ isEmpty(b, twoStepRank, p.file)
                THEN <<Mv(twoStepRank, p.file, "")>> ELSE <<>>)
       ELSE <<>>

PawnMoves(b, p) ==
    PawnMovesForwardOnly(b, p)
    \o PawnCaptureMoves(b, p, 0 - 1) \o PawnCaptureMoves(b, p, 1)

----------------------------------------------------------------------------
(* Attack detection and the king: mutually recursive in the source *)

RECURSIVE isKingInCheck(_, _, _)
RECURSIVE ScanAttack(_, _, _, _, _, _)
RECURSIVE getPossibleMoves(_, _, _)
RECURSIVE canCastle(_, _, _, _)

Moves(list) == [div |-> FALSE, list |-> list]
Diverges == [div |-> TRUE, list |-> <<>>]

\* King.getPossibleMoves: the adjacent cells that pass canMoveTo (for them
\* King.isValidMove answers true at once), then the castling moves.
KingAdjacentMoves(b, p) ==
    Concat([d \in 1..Len(KingDirections) |->
        LET toRank == p.rank + KingDirections[d][1]
            toFile == p.file + KingDirections[d][2]
        IN IF isValidPosition(toRank, toFile) /\ ~isOccupiedBy(b, toRank, toFile, p.color)
           THEN <<Mv(toRank, toFile, "")>> ELSE <<>>])

KingMoves(b, p, active) ==
    LET adjacent == KingAdjacentMoves(b, p)
        WithCastling(kingside, queenside) ==
            IF kingside = "D" \/ queenside = "D" THEN Diverges
            ELSE Moves(adjacent
                   \o (IF kingside = "T" THEN <<Mv(p.rank, p.file + 2, "")>> ELSE <<>>)
                   \o (IF queenside = "T" THEN <<Mv(p.rank, p.file - 2, "")>> ELSE <<>>))
        NotInCheck(inCheck) ==
            IF inCheck = "D" THEN Diverges
            ELSE IF inCheck = "T" THEN Moves(adjacent)
            ELSE WithCastling(canCastle(p, TRUE, b, active), canCastle(p, FALSE, b, active))
    IN IF p.hasMoved THEN Moves(adjacent)
       ELSE NotInCheck(isKingInCheck(b, p.color, active))

\* piece.getPossibleMoves(board), dispatched on the variant
getPossibleMoves(b, p, active) ==
    CASE p.type = "K" -> KingMoves(b, p, active)
      [] p.type = "Q" -> Moves(QueenMoves(b, p))
      [] p.type = "R" -> Moves(RookMoves(b, p))
      [] p.type = "B" -> Moves(BishopMoves(b, p))
      [] p.type = "N" -> Moves(KnightMoves(b, p))
      [] p.type = "P" -> Moves(PawnMoves(b, p))

\* Board.isSquareAttacked: the loop over the attacker's pieces from the k-th on.
\* It answers true at the first piece that lists the cell, and throws at the
\* first piece whose listing throws: the answer is that of the first piece in
\* scan order whose listing does either.
ScanAttack(b, rank, file, attackers, active, k) ==
    LET Listed(m) ==
            IF m.div THEN "D"
            ELSE IF HasDest(m.list, rank, file) THEN "T"
            ELSE "F"
        First(listings) ==
            LET stops == {j \in k..Len(attackers) : listings[j] # "F"}
            IN IF stops = {} THEN "F"
               ELSE listings[CHOOSE j \in stops : \A other \in stops : j <= other]
    IN First([j \in k..Len(attackers) |->
                 Listed(getPossibleMoves(b, CellAt(b, attackers[j]), active))])

isSquareAttacked(b, rank, file, attackingColor, active) ==
    ScanAttack(b, rank, file, PiecesOf(b, attackingColor), active, 1)

\* Board.isKingInCheck
isKingInCheck(b, color, active) ==
    LET kingPos == findKing(b, color) IN
    IF kingPos < 0 THEN "F"
    ELSE IF color \in active THEN "D"
    ELSE isSquareAttacked(b, kingPos \div 8, kingPos % 8, Opp(color),
                          active \cup {color})

\* King.canCastle
CastleTransit(p, isKingside, b, active, i) ==
    isSquareAttacked(b, p.rank, p.file + i * (IF isKingside THEN 1 ELSE 0 - 1),
                     Opp(p.color), active)

canCastle(p, isKingside, b, active) ==
    LET rights == b.castlingRights[p.color]
        rookFile == IF isKingside THEN 7 ELSE 0
        rook == getPiece(b, p.rank, rookFile)
        startFile == Min(p.file, rookFile) + 1
        endFile == Max(p.file, rookFile) - 1
        SecondSafe(second) ==
            IF second = "D" THEN "D" ELSE IF second = "T" THEN "F" ELSE "T"
        FirstSafe(first) ==
            IF first = "D" THEN "D"
            ELSE IF first = "T" THEN "F"
            ELSE SecondSafe(CastleTransit(p, isKingside, b, active, 2))
        NotInCheck(inCheck) ==
            IF inCheck = "D" THEN "D"
            ELSE IF inCheck = "T" THEN "F"
            ELSE IF isKingside /\ ~rights.kingside THEN "F"
            ELSE IF ~isKingside /\ ~rights.queenside THEN "F"
            ELSE IF rook = NoPiece \/ rook.type # "R" \/ rook.color # p.color
                    \/ rook.hasMoved
            THEN "F"
            ELSE IF \E file \in startFile..endFile : ~isEmpty(b, p.rank, file) THEN "F"
            ELSE FirstSafe(CastleTransit(p, isKingside, b, active, 1))
    IN IF p.hasMoved THEN "F"
       ELSE NotInCheck(isKingInCheck(b, p.color, active))

\* King.isValidMove
KingIsValidMove(p, toRank, toFile, b, active) ==
    LET rankDistance == Abs(toRank - p.rank)
        fileDistance == Abs(toFile - p.file)
    IN IF Max(rankDistance, fileDistance) = 1 THEN "T"
       ELSE IF rankDistance = 0 /\ fileDistance = 2
            THEN canCastle(p, toFile > p.file, b, active)
       ELSE "F"

Bool3(x) == IF x THEN "T" ELSE "F"

\* Piece.canMoveTo
canMoveTo(p, toRank, toFile, b) ==
    IF ~isValidPosition(toRank, toFile) THEN "F"
    ELSE IF isOccupiedBy(b, toRank, toFile, p.color) THEN "F"
    ELSE CASE p.type = "K" -> KingIsValidMove(p, toRank, toFile, b, {})
           [] p.type = "Q" ->
                Bool3((isStraightMove(p, toRank, toFile) \/ isDiagonalMove(p, toRank, toFile))
                      /\ isPathClear(p, toRank, toFile, b))
           [] p.type = "R" ->
                Bool3(isStraightMove(p, toRank, toFile) /\ isPathClear(p, toRank, toFile, b))
           [] p.type = "B" ->
                Bool3(isDiagonalMove(p, toRank, toFile) /\ isPathClear(p, toRank, toFile, b))
           [] p.type = "N" ->
                Bool3(\/ (Abs(toRank - p.rank) = 2 /\ Abs(toFile - p.file) = 1)
                      \/ (Abs(toRank - p.rank) = 1 /\ Abs(toFile - p.file) = 2))
           [] p.type = "P" -> Bool3(PawnIsValidMove(p, toRank, toFile, b))

----------------------------------------------------------------------------
(* Board: construction, makeMove, toFEN, clone *)

BackRank == <<"R", "N", "B", "Q", "K", "B", "N", "R">>

\* Board.initializeBoard
InitialSquares ==
    [rank \in 0..7 |-> [file \in 0..7 |->
        CASE rank = 0 -> NewPiece(BackRank[file + 1], "white", rank, file)
          [] rank = 1 -> NewPiece("P", "white", rank, file)
          [] rank = 6 -> NewPiece("P", "black", rank, file)
          [] rank = 7 -> NewPiece(BackRank[file + 1], "black", rank, file)
          [] OTHER -> NoPiece]]

AllCastlingRights ==
    [white |-> [kingside |-> TRUE, queenside |-> TRUE],
     black |-> [kingside |-> TRUE, queenside |-> TRUE]]

NoTarget == <<>>

\* new Board()
NewBoard ==
    [squares |-> InitialSquares,
     positionHistory |-> <<>>,
     castlingRights |-> AllCastlingRights,
     enPassantTarget |-> NoTarget,
     halfMoveClock |-> 0,
     fullMoveNumber |-> 1]

\* Board.createPiece
createPiece(type, color, rank, file) == NewPiece(type, color, rank, file)

\* the rights as a move of the king alone would change them
updateCastlingRightsForKing(rights, piece, fromRank, fromFile, toRank, toFile) ==
    IF piece.type = "K"
    THEN [rights EXCEPT ![piece.color] = [kingside |-> FALSE, queenside |-> FALSE]]
    ELSE rights

\* Board.updateCastlingRights
updateCastlingRights(rights, piece, fromRank, fromFile, toRank, toFile) ==
    LET afterKing ==
            IF piece.type = "K"
            THEN [rights EXCEPT ![piece.color] = [kingside |-> FALSE, queenside |-> FALSE]]
            ELSE rights
        afterRook ==
            IF piece.type = "R" /\ fromFile = 0
            THEN [afterKing EXCEPT ![piece.color].queenside = FALSE]
            ELSE IF piece.type = "R" /\ fromFile = 7
            THEN [afterKing EXCEPT ![piece.color].kingside = FALSE]
            ELSE afterKing
        color == IF toRank = 0 THEN "white" ELSE "black"
    IN IF (toRank = 0 \/ toRank = 7) /\ toFile = 0
       THEN [afterRook EXCEPT ![color].queenside = FALSE]
       ELSE IF (toRank = 0 \/ toRank = 7) /\ toFile = 7
       THEN [afterRook EXCEPT ![color].kingside = FALSE]
       ELSE afterRook

\* a board that never notes a target
updateEnPassantTargetNever(piece, fromRank, toRank, fromFile) == NoTarget

\* Board.updateEnPassantTarget
updateEnPassantTarget(piece, fromRank, toRank, fromFile) ==
    IF piece.type = "P" /\ Abs(toRank - fromRank) = 2
    THEN positionToAlgebraic(fromFile, (fromRank + toRank) \div 2)
    ELSE NoTarget

\* a clock that only a capture on the destination cell resets
updateHalfMoveClockOnCapture(clock, piece, capturedPiece) ==
    IF capturedPiece # NoPiece THEN 0 ELSE clock + 1

\* Board.updateCounters (halfMoveClock)
updateHalfMoveClock(clock, piece, capturedPiece) ==
    IF piece.type = "P" \/ capturedPiece # NoPiece THEN 0 ELSE clock + 1

\* the castling part left out: the king goes alone
HandleCastlingKingAlone(b, piece, fromRank, fromFile, toFile) == b

\* Board.handleSpecialMoves, castling part: whatever stands on the rook's corner
\* is carried to the rook's destination.
HandleCastling(b, piece, fromRank, fromFile, toFile) ==
    IF piece.type = "K" /\ Abs(toFile - fromFile) = 2
    THEN LET rookFromFile == IF toFile > fromFile THEN 7 ELSE 0
             rookToFile == IF toFile > fromFile THEN 5 ELSE 3
             rook == getPiece(b, fromRank, rookFromFile)
         IN setPiece(removePiece(b, fromRank, rookFromFile), rook, fromRank, rookToFile)
    ELSE b

IsEnPassantShape(piece, fromFile, toFile, capturedPiece) ==
    piece.type = "P" /\ toFile # fromFile /\ capturedPiece = NoPiece

\* en passant part: the pawn beside the mover, on the destination file, is removed
HandleEnPassant(b, piece, fromRank, fromFile, toFile, capturedPiece) ==
    IF IsEnPassantShape(piece, fromFile, toFile, capturedPiece)
    THEN removePiece(b, fromRank, toFile)
    ELSE b

IsPromotionShape(piece, toRank) == piece.type = "P" /\ (toRank = 0 \/ toRank = 7)

\* promotion part: a new piece (never moved) replaces the pawn
HandlePromotion(b, piece, toRank, toFile, promotion) ==
    IF IsPromotionShape(piece, toRank)
    THEN setPiece(b, createPiece(IF promotion = "" THEN "Q" ELSE promotion,
                                 piece.color, toRank, toFile), toRank, toFile)
    ELSE b

\* Board.makeMove.  The source sets piece.hasMoved on the moved object last;
\* nothing in between reads that flag, so the model sets it on the object as it
\* is lifted, which keeps the flag with the object wherever the special-move
\* steps carry it.  Answers the board after the move and the moveInfo record;
\* moveInfo.castlingRights is a shallow copy, whose per-colour records are those
\* of the board itself, so it reads as the rights after the move.
makeMove(b, move) ==
    LET fromRank == move.fromRank
        fromFile == move.fromFile
        toRank == move.toRank
        toFile == move.toFile
        piece == getPiece(b, fromRank, fromFile)
        capturedPiece == getPiece(b, toRank, toFile)
        lifted == [piece EXCEPT !.hasMoved = TRUE]
        moved == setPiece(removePiece(b, fromRank, fromFile), lifted, toRank, toFile)
        castled == HandleCastling(moved, piece, fromRank, fromFile, toFile)
        taken == HandleEnPassant(castled, piece, fromRank, fromFile, toFile, capturedPiece)
        promoted == HandlePromotion(taken, piece, toRank, toFile, move.promotion)
        after ==
            [promoted EXCEPT
                !.castlingRights =
                    updateCastlingRights(b.castlingRights, piece, fromRank, fromFile,
                                         toRank, toFile),
                !.enPassantTarget = updateEnPassantTarget(piece, fromRank, toRank, fromFile),
                !.halfMoveClock = updateHalfMoveClock(b.halfMoveClock, piece, capturedPiece),
                !.fullMoveNumber =
                    IF piece.color = "black" THEN b.fullMoveNumber + 1
                    ELSE b.fullMoveNumber]
    IN IF piece = NoPiece
       THEN [threw |-> TRUE, board |-> b, info |-> [capturedPiece |-> NoPiece]]
       ELSE [threw |-> FALSE,
             board |-> after,
             info |->
               [piece |-> piece.type,
                capturedPiece |->
                    IF IsEnPassantShape(piece, fromFile, toFile, capturedPiece)
                    THEN getPiece(castled, fromRank, toFile) ELSE capturedPiece,
                isCastling |-> piece.type = "K" /\ Abs(toFile - fromFile) = 2,
                isEnPassant |-> IsEnPassantShape(piece, fromFile, toFile, capturedPiece),
                isPromotion |-> IsPromotionShape(piece, toRank),
                castlingRights |-> after.castlingRights,
                enPassantTarget |-> b.enPassantTarget,
                halfMoveClock |-> b.halfMoveClock]]

\* Board.toFEN: one rank of the placement field
PieceLetter(piece) ==
    IF piece.color = "white" THEN piece.type
    ELSE CASE piece.type = "K" -> "k" [] piece.type = "Q" -> "q"
           [] piece.type = "R" -> "r" [] piece.type = "B" -> "b"
           [] piece.type = "N" -> "n" [] piece.type = "P" -> "p"

RECURSIVE FenRank(_, _, _, _)
FenRank(b, rank, file, emptyCount) ==
    IF file > 7 THEN (IF emptyCount > 0 THEN <<RANKS[emptyCount]>> ELSE <<>>)
    ELSE LET piece == b.squares[rank][file] IN
         IF piece # NoPiece
         THEN (IF emptyCount > 0 THEN <<RANKS[emptyCount]>> ELSE <<>>)
              \o <<PieceLetter(piece)>> \o FenRank(b, rank, file + 1, 0)
         ELSE FenRank(b, rank, file + 1, emptyCount + 1)

\* Board.toFEN: ranks 8 down to 1, separated by "/"; nothing follows the placement
toFEN(b) ==
    Concat([k \in 1..8 |->
        FenRank(b, 8 - k, 0, 0) \o (IF 8 - k > 0 THEN <<"/">> ELSE <<>>)])

\* Board.clone: a new Board() (which sets up the start position), then every
\* occupied cell of the original is copied over it; the cells that are empty in
\* the original keep what the constructor put there.
clone(b) ==
    [NewBoard EXCEPT
        !.squares = [rank \in 0..7 |-> [file \in 0..7 |->
            IF b.squares[rank][file] # NoPiece
            THEN PieceClone(b.squares[rank][file])
            ELSE InitialSquares[rank][file]]],
        !.castlingRights = b.castlingRights,
        !.enPassantTarget = b.enPassantTarget,
        !.halfMoveClock = b.halfMoveClock,
        !.fullMoveNumber = b.fullMoveNumber]

----------------------------------------------------------------------------
(* MoveValidator.  `live` is this.board, the board the validator was built   *)
(* on.  Every operation that touches it answers the board it leaves behind,  *)
(* and threw = TRUE when it ends with an exception.                          *)

\* MoveValidator.validateBasicMove
validateBasicMove(live, move) ==
    IF ~isValidPosition(move.fromRank, move.fromFile)
       \/ ~isValidPosition(move.toRank, move.toFile)
    THEN "INVALID_POSITION"
    ELSE LET piece == getPiece(live, move.fromRank, move.fromFile)
             targetPiece == getPiece(live, move.toRank, move.toFile)
         IN IF piece = NoPiece THEN "NO_PIECE"
            ELSE IF piece.color # move.color THEN "WRONG_COLOR"
            ELSE IF move.fromRank = move.toRank /\ move.fromFile = move.toFile
                 THEN "SAME_POSITION"
            ELSE IF targetPiece # NoPiece /\ targetPiece.color = move.color
                 THEN "FRIENDLY_FIRE"
            ELSE "ok"

\* validateKingSafety without the putting back
validateKingSafetyLeftAsTried(live, move, color) ==
    LET piece == getPiece(live, move.fromRank, move.fromFile)
        temp == setPiece(setPiece(live, NoPiece, move.fromRank, move.fromFile),
                         piece, move.toRank, move.toFile)
        Checked(inCheck) ==
            IF inCheck = "D" THEN [board |-> temp, res |-> "throw"]
            ELSE [board |-> temp,
                  res |-> IF inCheck = "T" THEN "KING_IN_CHECK" ELSE "ok"]
    IN Checked(isKingInCheck(temp, color, {}))

\* MoveValidator.validateKingSafety: the piece is put on the destination, the
\* check is computed, and only then are the two cells put back; an exception
\* from the check skips the putting back.  The jumped pawn of an en-passant
\* capture and the rook of a castling stay where they are meanwhile.
validateKingSafety(live, move, color) ==
    LET piece == getPiece(live, move.fromRank, move.fromFile)
        capturedPiece == getPiece(live, move.toRank, move.toFile)
        temp == setPiece(setPiece(live, NoPiece, move.fromRank, move.fromFile),
                         piece, move.toRank, move.toFile)
        undone == setPiece(setPiece(temp, piece, move.fromRank, move.fromFile),
                           capturedPiece, move.toRank, move.toFile)
        Checked(inCheck) ==
            IF inCheck = "D" THEN [board |-> temp, res |-> "throw"]
            ELSE [board |-> undone,
                  res |-> IF inCheck = "T" THEN "KING_IN_CHECK" ELSE "ok"]
    IN Checked(isKingInCheck(temp, color, {}))

TestMove(fromRank, fromFile, toRank, toFile, color) ==
    [fromRank |-> fromRank, fromFile |-> fromFile, toRank |-> toRank,
     toFile |-> toFile, color |-> color]

\* MoveValidator.validateSpecialMoves with validateCastling, validateEnPassant
\* and validatePromotion: "ok", a reason code, or "throw"
validateSpecialMoves(live, move, piece) ==
    LET Castling(can) ==
            IF can = "D" THEN "throw" ELSE IF can = "T" THEN "ok" ELSE "INVALID_CASTLING"
    IN IF piece.type = "K" /\ Abs(move.toFile - move.fromFile) = 2
       THEN Castling(canCastle(piece, move.toFile > piece.file, live, {}))
       ELSE IF piece.type = "P" /\ move.toFile # move.fromFile
               /\ getPiece(live, move.toRank, move.toFile) = NoPiece
       THEN IF canCaptureEnPassant(piece, move.toRank, move.toFile, live)
            THEN "ok" ELSE "INVALID_EN_PASSANT"
       ELSE IF piece.type = "P" /\ (move.toRank = 0 \/ move.toRank = 7)
       THEN IF ~canPromote(piece, move.toRank) THEN "INVALID_PROMOTION"
            ELSE IF move.promotion # "" /\ move.promotion \notin {"Q", "R", "B", "N"}
            THEN "INVALID_PROMOTION_PIECE"
            ELSE "ok"
       ELSE "ok"

\* MoveValidator.hasNoLegalMoves(board, color): the pieces and their candidate
\* moves are read from `b`, the board handed in, but each candidate is tried
\* by validateKingSafety, which works on this.board (`live`).
RECURSIVE TryMoves(_, _, _, _, _, _)
TryMoves(live, list, k, rank, file, color) ==
    LET Tried(v) ==
            IF v.res = "throw" THEN [board |-> v.board, res |-> "throw"]
            ELSE IF v.res = "ok" THEN [board |-> v.board, res |-> "found"]
            ELSE TryMoves(v.board, list, k + 1, rank, file, color)
    IN IF k > Len(list) THEN [board |-> live, res |-> "none"]
       ELSE Tried(validateKingSafety(
                      live, TestMove(rank, file, list[k].toRank, list[k].toFile, color),
                      color))

RECURSIVE HasNoLegalMovesFrom(_, _, _, _, _)
HasNoLegalMovesFrom(live, b, color, pieces, k) ==
    LET Tried(t) ==
            IF t.res = "throw" THEN [board |-> t.board, res |-> "throw"]
            ELSE IF t.res = "found" THEN [board |-> t.board, res |-> "F"]
            ELSE HasNoLegalMovesFrom(t.board, b, color, pieces, k + 1)
        Listed(possibleMoves) ==
            IF possibleMoves.div THEN [board |-> live, res |-> "throw"]
            ELSE Tried(TryMoves(live, possibleMoves.list, 1,
                                pieces[k] \div 8, pieces[k] % 8, color))
    IN IF k > Len(pieces) THEN [board |-> live, res |-> "T"]
       ELSE Listed(getPossibleMoves(b, CellAt(b, pieces[k]), {}))

hasNoLegalMoves(live, b, color) ==
    HasNoLegalMovesFrom(live, b, color, PiecesOf(b, color), 1)

\* MoveValidator.isCheckmate(board, color)
isCheckmate(live, b, color) ==
    LET Checked(inCheck) ==
            IF inCheck = "D" THEN [board |-> live, res |-> "throw"]
            ELSE IF inCheck = "F" THEN [board |-> live, res |-> "F"]
            ELSE hasNoLegalMoves(live, b, color)
    IN Checked(isKingInCheck(b, color, {}))

\* MoveValidator.isStalemate(board, color)
isStalemate(live, b, color) ==
    LET Checked(inCheck) ==
            IF inCheck = "D" THEN [board |-> live, res |-> "throw"]
            ELSE IF inCheck = "T" THEN [board |-> live, res |-> "F"]
            ELSE hasNoLegalMoves(live, b, color)
    IN Checked(isKingInCheck(b, color, {}))

\* the scratch board of setMoveFlags: this.board.clone() with the move made on it
ScratchBoard(live, move) == makeMove(clone(live), move).board

\* MoveValidator.setMoveFlags, the check / mate / stalemate part
setMoveFlags(live, move, piece) ==
    LET opponentColor == Opp(piece.color)
        Mate(mate) ==
            [board |-> mate.board, threw |-> mate.res = "throw", isCheck |-> TRUE,
             isCheckmate |-> mate.res = "T", isStalemate |-> FALSE]
        Stale(stale) ==
            [board |-> stale.board, threw |-> stale.res = "throw", isCheck |-> FALSE,
             isCheckmate |-> FALSE, isStalemate |-> stale.res = "T"]
        \* isCheckmate answers false at once when the king is not in check
        Checked(boardClone, inCheck) ==
            IF inCheck = "D"
            THEN [board |-> live, threw |-> TRUE, isCheck |-> FALSE,
                  isCheckmate |-> FALSE, isStalemate |-> FALSE]
            ELSE IF inCheck = "T" THEN Mate(isCheckmate(live, boardClone, opponentColor))
            ELSE Stale(isStalemate(live, boardClone, opponentColor))
        Made(boardClone) ==
            Checked(boardClone, isKingInCheck(boardClone, opponentColor, {}))
    IN Made(ScratchBoard(live, move))

\* MoveValidator.getDisambiguation: the other pieces of the mover's type and
\* colour that pass canMoveTo and validateKingSafety for the same destination
RECURSIVE SimilarPiecesFrom(_, _, _, _, _)
SimilarPiecesFrom(live, move, pieces, k, found) ==
    LET rank == pieces[k] \div 8
        file == pieces[k] % 8
        p == CellAt(live, pieces[k])
        Safe(v) ==
            IF v.res = "throw" THEN [board |-> v.board, threw |-> TRUE, similar |-> found]
            ELSE SimilarPiecesFrom(
                     v.board, move, pieces, k + 1,
                     IF v.res = "ok" THEN found \cup {<<rank, file>>} ELSE found)
        Can(can) ==
            IF can = "D" THEN [board |-> live, threw |-> TRUE, similar |-> found]
            ELSE IF can = "F" THEN SimilarPiecesFrom(live, move, pieces, k + 1, found)
            ELSE Safe(validateKingSafety(
                          live, TestMove(rank, file, move.toRank, move.toFile, move.color),
                          move.color))
    IN IF k > Len(pieces) THEN [board |-> live, threw |-> FALSE, similar |-> found]
       ELSE IF p.type # move.piece \/ (rank = move.fromRank /\ file = move.fromFile)
       THEN SimilarPiecesFrom(live, move, pieces, k + 1, found)
       ELSE Can(canMoveTo(p, move.toRank, move.toFile, live))

\* a disambiguation that always settles for the file letter
getDisambiguationByFile(live, move) ==
    LET Found(s) ==
            [board |-> s.board,
             threw |-> s.threw,
             text |-> IF s.threw \/ s.similar = {} THEN <<>>
                      ELSE <<FILES[move.fromFile + 1]>>]
    IN IF move.piece = "P" THEN [board |-> live, threw |-> FALSE, text |-> <<>>]
       ELSE Found(SimilarPiecesFrom(live, move, PiecesOf(live, move.color), 1, {}))

getDisambiguation(live, move) ==
    LET Found(s) ==
            [board |-> s.board,
             threw |-> s.threw,
             text |-> IF s.threw \/ s.similar = {} THEN <<>>
                      ELSE IF ~\E q \in s.similar : q[2] = move.fromFile
                      THEN <<FILES[move.fromFile + 1]>>
                      ELSE IF ~\E q \in s.similar : q[1] = move.fromRank
                      THEN <<RANKS[move.fromRank + 1]>>
                      ELSE positionToAlgebraic(move.fromFile, move.fromRank)]
    IN IF move.piece = "P" THEN [board |-> live, threw |-> FALSE, text |-> <<>>]
       ELSE Found(SimilarPiecesFrom(live, move, PiecesOf(live, move.color), 1, {}))

\* MoveValidator.generateAlgebraicNotation: the text as its characters
generateAlgebraicNotation(live, move) ==
    LET Written(d) ==
            [board |-> d.board,
             threw |-> d.threw,
             text |-> (IF move.piece # "P" THEN <<move.piece>> ELSE <<>>)
                      \o d.text
                      \o (IF move.isCapture
                          THEN (IF move.piece = "P" THEN <<move.from[1]>> ELSE <<>>)
                               \o <<"x">>
                          ELSE <<>>)
                      \o move.to
                      \o (IF move.isPromotion THEN <<"=", move.promotionPiece>> ELSE <<>>)
                      \o (IF move.isCheckmate THEN <<"#">>
                          ELSE IF move.isCheck THEN <<"+">> ELSE <<>>)]
    IN IF move.isCastling
       THEN [board |-> live, threw |-> FALSE,
             text |-> IF move.isKingside THEN <<"O", "-", "O">>
                      ELSE <<"O", "-", "O", "-", "O">>]
       ELSE Written(getDisambiguation(live, move))

\* the move of a reply that carries none
NoMove ==
    [fromRank |-> 0, fromFile |-> 0, toRank |-> 0, toFile |-> 0, promotion |-> "",
     color |-> "none", piece |-> "none", from |-> <<>>, to |-> <<>>,
     capturedPiece |-> "none", isCapture |-> FALSE, isCheck |-> FALSE,
     isCheckmate |-> FALSE, isStalemate |-> FALSE, isCastling |-> FALSE,
     isKingside |-> FALSE, isEnPassant |-> FALSE, isPromotion |-> FALSE,
     promotionPiece |-> "", notation |-> <<>>]

\* MoveValidator.enrichMoveData with the flag part of setMoveFlags
enrichMoveData(live, move, piece) ==
    LET capturedPiece == getPiece(live, move.toRank, move.toFile)
        isPromotion == piece.type = "P" /\ (move.toRank = 0 \/ move.toRank = 7)
        Enriched(flags) ==
            [fromRank |-> move.fromRank, fromFile |-> move.fromFile,
             toRank |-> move.toRank, toFile |-> move.toFile,
             promotion |-> move.promotion, color |-> move.color,
             piece |-> piece.type,
             from |-> positionToAlgebraic(move.fromFile, move.fromRank),
             to |-> positionToAlgebraic(move.toFile, move.toRank),
             capturedPiece |-> capturedPiece.type,
             isCapture |-> capturedPiece # NoPiece,
             isCheck |-> flags.isCheck,
             isCheckmate |-> flags.isCheckmate,
             isStalemate |-> flags.isStalemate,
             isCastling |-> piece.type = "K" /\ Abs(move.toFile - move.fromFile) = 2,
             isKingside |-> move.toFile > move.fromFile,
             isEnPassant |-> piece.type = "P" /\ move.toFile # move.fromFile
                             /\ capturedPiece = NoPiece,
             isPromotion |-> isPromotion,
             promotionPiece |-> IF isPromotion
                                THEN (IF move.promotion = "" THEN "Q" ELSE move.promotion)
                                ELSE "",
             notation |-> <<>>]
        Noted(enrichedMove, note) ==
            [board |-> note.board, threw |-> note.threw,
             move |-> [enrichedMove EXCEPT !.notation = note.text]]
        Notate(b, enrichedMove) ==
            Noted(enrichedMove, generateAlgebraicNotation(b, enrichedMove))
        Flagged(flags) ==
            IF flags.threw THEN [board |-> flags.board, threw |-> TRUE, move |-> NoMove]
            ELSE Notate(flags.board, Enriched(flags))
    IN Flagged(setMoveFlags(live, move, piece))

Rejected(live, reason) ==
    [board |-> live, isValid |-> FALSE, reason |-> reason, move |-> NoMove]

\* MoveValidator.isMoveLegal: the four checks in order, then the enrichment;
\* any exception on the way is caught and reported as VALIDATION_ERROR.
isMoveLegal(live, move) ==
    LET basic == validateBasicMove(live, move)
        piece == getPiece(live, move.fromRank, move.fromFile)
        Enriched(enriched) ==
            IF enriched.threw THEN Rejected(enriched.board, "VALIDATION_ERROR")
            ELSE [board |-> enriched.board, isValid |-> TRUE, reason |-> "",
                  move |-> enriched.move]
        Special(b, special) ==
            IF special = "throw" THEN Rejected(b, "VALIDATION_ERROR")
            ELSE IF special # "ok" THEN Rejected(b, special)
            ELSE Enriched(enrichMoveData(b, move, piece))
        Safe(safety) ==
            IF safety.res = "throw" THEN Rejected(safety.board, "VALIDATION_ERROR")
            ELSE IF safety.res # "ok" THEN Rejected(safety.board, safety.res)
            ELSE Special(safety.board, validateSpecialMoves(safety.board, move, piece))
        Can(can) ==
            IF can = "D" THEN Rejected(live, "VALIDATION_ERROR")
            ELSE IF can = "F" THEN Rejected(live, "INVALID_PIECE_MOVE")
            ELSE Safe(validateKingSafety(live, move, move.color))
    IN IF basic # "ok" THEN Rejected(live, basic)
       ELSE Can(canMoveTo(piece, move.toRank, move.toFile, live))

\* MoveValidator.getAllLegalMoves(color): the candidates of one piece, from the
\* k-th on, each put to isMoveLegal; n counts the moves found legal so far, and
\* caught tells whether one of the isMoveLegal calls has caught an exception
RECURSIVE LegalAmong(_, _, _, _, _, _, _, _)
LegalAmong(live, list, k, rank, file, color, n, caught) ==
    LET Checked(validation) ==
            IF validation.isValid
            THEN LegalAmong(validation.board, list, k + 1, rank, file, color, n + 1,
                            caught)
            ELSE LegalAmong(validation.board, list, k + 1, rank, file, color, n,
                            caught \/ validation.reason = "VALIDATION_ERROR")
    IN IF k > Len(list) THEN [board |-> live, n |-> n, caught |-> caught]
       ELSE Checked(isMoveLegal(live,
                        [fromRank |-> rank, fromFile |-> file,
                         toRank |-> list[k].toRank, toFile |-> list[k].toFile,
                         promotion |-> list[k].promotionPiece, color |-> color]))

\* the loop over the cells from cell i on, read from the board as the calls
\* before have left it; a listing that throws ends the whole call
RECURSIVE AllLegalMovesFrom(_, _, _, _, _)
AllLegalMovesFrom(live, color, i, n, caught) ==
    LET cells == {j \in i..63 : CellAt(live, j).color = color}
        cell == CHOOSE j \in cells : \A other \in cells : j <= other
        Tried(t) == AllLegalMovesFrom(t.board, color, cell + 1, t.n, t.caught)
        Listed(possibleMoves) ==
            IF possibleMoves.div
            THEN [board |-> live, threw |-> TRUE, n |-> n, caught |-> caught]
            ELSE Tried(LegalAmong(live, possibleMoves.list, 1, cell \div 8, cell % 8,
                                  color, n, caught))
    IN IF cells = {} THEN [board |-> live, threw |-> FALSE, n |-> n, caught |-> caught]
       ELSE Listed(getPossibleMoves(live, CellAt(live, cell), {}))

getAllLegalMoves(live, color) == AllLegalMovesFrom(live, color, 0, 0, FALSE)

----------------------------------------------------------------------------
(* Game *)

\* the ids the two players were registered with, and a third party's
PlayerIds == [white |-> "alice", black |-> "bob"]
Stranger == "mallory"
Callers == {PlayerIds.white, PlayerIds.black, Stranger}

\* options.timeControl || 900 and options.increment || 0
TimeControl == 900
Increment == 0

\* Game.getPlayerColor
getPlayerColor(playerId) ==
    IF PlayerIds.white = playerId THEN "white"
    ELSE IF PlayerIds.black = playerId THEN "black"
    ELSE "none"

\* validateMoveRequest without its first test, that the game is active
validateMoveRequestWhateverStatus(playerId, moveData) ==
    IF PlayerIds[currentTurn] # playerId THEN "NOT_YOUR_TURN"
    ELSE IF ~moveData.complete THEN "INVALID_MOVE_DATA"
    ELSE "ok"

\* Game.validateMoveRequest
validateMoveRequest(playerId, moveData) ==
    IF status # "active" THEN "GAME_NOT_ACTIVE"
    ELSE IF PlayerIds[currentTurn] # playerId THEN "NOT_YOUR_TURN"
    ELSE IF ~moveData.complete THEN "INVALID_MOVE_DATA"
    ELSE "ok"

\* Game.isDrawByRepetition
isDrawByRepetition(b) ==
    LET currentPosition == toFEN(b)
        hits == {k \in 1..Len(b.positionHistory) :
                    b.positionHistory[k].fen = currentPosition}
        count == IF hits = {} THEN 0
                 ELSE b.positionHistory[CHOOSE k \in hits : \A j \in hits : k <= j].count
    IN count >= 3

\* Game.isDrawByFiftyMoveRule
isDrawByFiftyMoveRule(b) == b.halfMoveClock >= 50

\* Game.isDrawByInsufficientMaterial
PieceTypes(b, color) ==
    {i \in 0..63 : CellAt(b, i) # NoPiece /\ CellAt(b, i).color = color
                   /\ CellAt(b, i).type # "K"}

isDrawByInsufficientMaterial(b) ==
    LET whitePieces == PieceTypes(b, "white")
        blackPieces == PieceTypes(b, "black")
        Only(set, types) ==
            Cardinality(set) = 1 /\ \A i \in set : CellAt(b, i).type \in types
    IN \/ (whitePieces = {} /\ blackPieces = {})
       \/ (Only(whitePieces, {"B", "N"}) /\ blackPieces = {})
       \/ (Only(blackPieces, {"B", "N"}) /\ whitePieces = {})
       \/ (Only(whitePieces, {"B"}) /\ Only(blackPieces, {"B"}))

\* Game.updateGameState, the terminal conditions in their order: the end
\* (status, result, reason) the move brings, before the clock is looked at
TerminalOutcome(move, b) ==
    IF move.isCheckmate
    THEN [status |-> "finished",
          result |-> IF currentTurn = "white" THEN GAME_RESULTS.WHITE_WINS
                     ELSE GAME_RESULTS.BLACK_WINS,
          reason |-> "checkmate"]
    ELSE IF move.isStalemate
    THEN [status |-> "finished", result |-> GAME_RESULTS.DRAW, reason |-> "stalemate"]
    ELSE IF isDrawByRepetition(b)
    THEN [status |-> "finished", result |-> GAME_RESULTS.DRAW,
          reason |-> "threefold_repetition"]
    ELSE IF isDrawByFiftyMoveRule(b)
    THEN [status |-> "finished", result |-> GAME_RESULTS.DRAW, reason |-> "fifty_move_rule"]
    ELSE IF isDrawByInsufficientMaterial(b)
    THEN [status |-> "finished", result |-> GAME_RESULTS.DRAW,
          reason |-> "insufficient_material"]
    ELSE [status |-> status, result |-> result, reason |-> resultReason]

\* the mover's clock charged without a floor
ClockAfterBelowZero(timeRemaining, timeSpent) ==
    IF TimeControl > 0 THEN timeRemaining - timeSpent + Increment
    ELSE timeRemaining

\* Game.updatePlayerTime: the mover's clock after the move
ClockAfter(timeRemaining, timeSpent) ==
    IF TimeControl > 0 THEN Max(0, timeRemaining - timeSpent + Increment)
    ELSE timeRemaining

\* Game.switchTurn, on the status updateGameState has left
switchTurn(st, turn, number) ==
    IF st = "active"
    THEN [currentTurn |-> Opp(turn),
          moveNumber |-> IF Opp(turn) = "white" THEN number + 1 ELSE number]
    ELSE [currentTurn |-> turn, moveNumber |-> number]

\* the entry executeMove appends to Game.moves.  Its castlingRights field is
\* moveInfo's shallow copy: the two per-colour objects in it are those of the
\* board that made the move, so the entry names that board (rightsOf) and its
\* rights are read from there.
HistoryEntry(move, info, timeSpent) ==
    [fromRank |-> move.fromRank, fromFile |-> move.fromFile,
     toRank |-> move.toRank, toFile |-> move.toFile,
     piece |-> move.piece, player |-> currentTurn, notation |-> move.notation,
     capturedPiece |-> info.capturedPiece.type,
     isCapture |-> move.isCapture, isCheck |-> move.isCheck,
     isCheckmate |-> move.isCheckmate, isStalemate |-> move.isStalemate,
     isCastling |-> move.isCastling \/ info.isCastling,
     isEnPassant |-> move.isEnPassant \/ info.isEnPassant,
     isPromotion |-> move.isPromotion \/ info.isPromotion,
     timeSpent |-> timeSpent,
     rightsOf |-> twin.id]

\* the last call and what it answered: whether the answer carries a success
\* field, its value (FALSE when there is none), its error code and its reason
\* code
Reply(op, playerId, moveData, timeSpent, success, error) ==
    [op |-> op, playerId |-> playerId, moveData |-> moveData, timeSpent |-> timeSpent,
     hasSuccess |-> TRUE, success |-> success, error |-> error, reason |-> ""]

NoData ==
    [complete |-> FALSE, fromRank |-> 0, fromFile |-> 0, toRank |-> 0, toFile |-> 0,
     promotion |-> ""]

Data(fromRank, fromFile, toRank, toFile, promotion) ==
    [complete |-> TRUE, fromRank |-> fromRank, fromFile |-> fromFile,
     toRank |-> toRank, toFile |-> toFile, promotion |-> promotion]

\* Game.makeMove(playerId, moveData); timeSpent is the whole number of seconds
\* since the previous accepted move, read from the wall clock by executeMove.
GameMakeMove(playerId, moveData, timeSpent) ==
    LET preliminaryCheck == validateMoveRequest(playerId, moveData)
        clock == ClockAfter(players[currentTurn].timeRemaining, timeSpent)
        timedOut == TimeControl > 0 /\ clock = 0
        \* validateMoveRequest's answer is handed back as it is: isValid and reason
        Refused ==
            /\ last' = [Reply("makeMove", playerId, moveData, timeSpent, FALSE, "")
                        EXCEPT !.hasSuccess = FALSE, !.reason = preliminaryCheck]
            /\ UNCHANGED <<board, status, currentTurn, result, resultReason, moves,
                           moveNumber, players>>
        Failed(b, error) ==
            /\ last' = Reply("makeMove", playerId, moveData, timeSpent, FALSE, error)
            /\ board' = b
            /\ UNCHANGED <<status, currentTurn, result, resultReason, moves, moveNumber,
                           players>>
        Updated(outcome) ==
            /\ status' = (IF timedOut THEN "finished" ELSE outcome.status)
            /\ result' = IF timedOut
                         THEN (IF currentTurn = "white" THEN GAME_RESULTS.BLACK_WINS
                               ELSE GAME_RESULTS.WHITE_WINS)
                         ELSE outcome.result
            /\ resultReason' = (IF timedOut THEN "timeout" ELSE outcome.reason)
            /\ currentTurn' = switchTurn(status', currentTurn, moveNumber).currentTurn
            /\ moveNumber' = switchTurn(status', currentTurn, moveNumber).moveNumber
        Executed(move, made) ==
            IF made.threw THEN Failed(made.board, "EXECUTION_ERROR")
            ELSE /\ last' = Reply("makeMove", playerId, moveData, timeSpent, TRUE, "")
                 /\ board' = made.board
                 /\ moves' = Append(moves, HistoryEntry(move, made.info, timeSpent))
                 /\ players' = [players EXCEPT ![currentTurn].timeRemaining = clock]
                 /\ Updated(TerminalOutcome(move, made.board))
        Validated(validation) ==
            IF ~validation.isValid THEN Failed(validation.board, validation.reason)
            ELSE Executed(validation.move, makeMove(validation.board, validation.move))
    IN /\ nCalls' = nCalls + 1
       /\ twin' = twin
       /\ IF preliminaryCheck # "ok"
          THEN Refused
          ELSE Validated(
                   isMoveLegal(board,
                               [fromRank |-> moveData.fromRank,
                                fromFile |-> moveData.fromFile,
                                toRank |-> moveData.toRank, toFile |-> moveData.toFile,
                                promotion |-> moveData.promotion, color |-> currentTurn]))

\* resign open only to the player whose turn it is
GameResignInTurn(playerId) ==
    /\ nCalls' = nCalls + 1
    /\ twin' = twin
    /\ IF status # "active" \/ PlayerIds[currentTurn] # playerId
       THEN /\ last' = Reply("resign", playerId, NoData, 0, FALSE, "")
            /\ UNCHANGED <<board, status, currentTurn, result, resultReason, moves,
                           moveNumber, players>>
       ELSE /\ last' = Reply("resign", playerId, NoData, 0, TRUE, "")
            /\ status' = "finished"
            /\ result' = IF currentTurn = "white"
                         THEN GAME_RESULTS.BLACK_WINS ELSE GAME_RESULTS.WHITE_WINS
            /\ resultReason' = "resignation"
            /\ UNCHANGED <<board, currentTurn, moves, moveNumber, players>>

\* Game.resign(playerId)
GameResign(playerId) ==
    /\ nCalls' = nCalls + 1
    /\ twin' = twin
    /\ IF status # "active" \/ getPlayerColor(playerId) = "none"
       THEN /\ last' = Reply("resign", playerId, NoData, 0, FALSE, "")
            /\ UNCHANGED <<board, status, currentTurn, result, resultReason, moves,
                           moveNumber, players>>
       ELSE /\ last' = Reply("resign", playerId, NoData, 0, TRUE, "")
            /\ status' = "finished"
            /\ result' = IF getPlayerColor(playerId) = "white"
                         THEN GAME_RESULTS.BLACK_WINS ELSE GAME_RESULTS.WHITE_WINS
            /\ resultReason' = "resignation"
            /\ UNCHANGED <<board, currentTurn, moves, moveNumber, players>>

\* Game.offerDraw(playerId)
GameOfferDraw(playerId) ==
    /\ nCalls' = nCalls + 1
    /\ twin' = twin
    /\ IF status # "active"
       THEN /\ last' = Reply("offerDraw", playerId, NoData, 0, FALSE, "")
            /\ UNCHANGED <<board, status, currentTurn, result, resultReason, moves,
                           moveNumber, players>>
       ELSE /\ last' = Reply("offerDraw", playerId, NoData, 0, TRUE, "")
            /\ status' = "finished"
            /\ result' = GAME_RESULTS.DRAW
            /\ resultReason' = "draw_agreement"
            /\ UNCHANGED <<board, currentTurn, moves, moveNumber, players>>

----------------------------------------------------------------------------
(* The callers: what they ask for, and how often *)

Sq(name) ==
    [rank |-> (CHOOSE k \in 1..8 : RANKS[k] = name[2]) - 1,
     file |-> (CHOOSE k \in 1..8 : FILES[k] = name[1]) - 1]

Req(from, to) == Data(Sq(from).rank, Sq(from).file, Sq(to).rank, Sq(to).file, "")

e2e4 == Req(<<"e", "2">>, <<"e", "4">>)
e7e5 == Req(<<"e", "7">>, <<"e", "5">>)
g1f3 == Req(<<"g", "1">>, <<"f", "3">>)
f2f3 == Req(<<"f", "2">>, <<"f", "3">>)
g2g4 == Req(<<"g", "2">>, <<"g", "4">>)
d8h4 == Req(<<"d", "8">>, <<"h", "4">>)
f1c4 == Req(<<"f", "1">>, <<"c", "4">>)
e1g1 == Req(<<"e", "1">>, <<"g", "1">>)
g8f6 == Req(<<"g", "8">>, <<"f", "6">>)
f3g1 == Req(<<"f", "3">>, <<"g", "1">>)
f6g8 == Req(<<"f", "6">>, <<"g", "8">>)
b5c6 == Req(<<"b", "5">>, <<"c", "6">>)
h5a5 == Req(<<"h", "5">>, <<"a", "5">>)

\* executeMove's timeSpent: a move made at once, or one that uses up the clock
ElapsedChoices == {0, TimeControl}

MakeMoveOf(requests, limit) ==
    /\ nCalls < limit
    /\ \E playerId \in Callers, moveData \in requests, timeSpent \in ElapsedChoices :
           GameMakeMove(playerId, moveData, timeSpent)

ResignOf(limit) ==
    /\ nCalls < limit
    /\ \E playerId \in Callers : GameResign(playerId)

OfferDrawOf(limit) ==
    /\ nCalls < limit
    /\ \E playerId \in Callers : GameOfferDraw(playerId)

----------------------------------------------------------------------------
(* The game played from new Game() *)

MaxCalls == 4

Requests == {e2e4, e7e5, g1f3, f2f3, g2g4, d8h4, f1c4, e1g1, NoData}

\* new Game(alice, bob), with a given board and side to move
GameOn(b, turn) ==
    /\ board = b
    /\ status = "active"
    /\ currentTurn = turn
    /\ result = GAME_RESULTS.ONGOING
    /\ resultReason = "none"
    /\ moves = <<>>
    /\ moveNumber = 1
    /\ players = [white |-> [timeRemaining |-> TimeControl],
                  black |-> [timeRemaining |-> TimeControl]]
    /\ nCalls = 0
    /\ last = Reply("none", "none", NoData, 0, FALSE, "")
    /\ twin = [id |-> "game", other |-> <<>>]

Init == GameOn(NewBoard, "white")

MakeMove == MakeMoveOf(Requests, MaxCalls)

Resign == ResignOf(MaxCalls)

OfferDraw == OfferDrawOf(MaxCalls)

Next == MakeMove \/ Resign \/ OfferDraw

Spec == Init /\ [][Next]_vars

----------------------------------------------------------------------------
(* The game continued from a position arranged on the board: a new Game()    *)
(* whose board is filled through Board.setPiece and whose fields are         *)
(* assigned, as the caller does when it reconstructs a game on reload.       *)

MaxPositionCalls == 9

NoCastlingRights ==
    [white |-> [kingside |-> FALSE, queenside |-> FALSE],
     black |-> [kingside |-> FALSE, queenside |-> FALSE]]

EmptySquares == [rank \in 0..7 |-> [file \in 0..7 |-> NoPiece]]

\* a piece that has moved before, and one still on its first cell
Moved(type, color, name) ==
    [NewPiece(type, color, Sq(name).rank, Sq(name).file) EXCEPT !.hasMoved = TRUE]
Unmoved(type, color, name) == NewPiece(type, color, Sq(name).rank, Sq(name).file)

\* the pieces put on an empty grid with setPiece
RECURSIVE Placed(_, _)
Placed(b, pieces) ==
    IF pieces = <<>> THEN b
    ELSE Placed(setPiece(b, Head(pieces), Head(pieces).rank, Head(pieces).file),
                Tail(pieces))

Arranged(pieces, rights, target) ==
    [Placed([NewBoard EXCEPT !.squares = EmptySquares], pieces) EXCEPT
        !.castlingRights = rights, !.enPassantTarget = target]

\* White: Ka5, b5.  Black: Ke8, Rh5, c5 (the pawn has just come from c7).
EnPassantPin ==
    Arranged(<<Moved("K", "white", <<"a", "5">>), Moved("P", "white", <<"b", "5">>),
               Moved("P", "black", <<"c", "5">>), Moved("R", "black", <<"h", "5">>),
               Moved("K", "black", <<"e", "8">>)>>,
             NoCastlingRights, <<"c", "6">>)

\* White: Ke1, Ng1, a2.  Black: Ke8, Ng8, a7.  Both kings have moved and come back.
KnightShuffle ==
    Arranged(<<Moved("K", "white", <<"e", "1">>), Unmoved("N", "white", <<"g", "1">>),
               Unmoved("P", "white", <<"a", "2">>), Unmoved("P", "black", <<"a", "7">>),
               Moved("K", "black", <<"e", "8">>), Unmoved("N", "black", <<"g", "8">>)>>,
             NoCastlingRights, NoTarget)

\* White: Ke1 and Rh1, neither has moved.  Black: Ke8 (has moved), a pawn on e2.
CastleThroughPawn ==
    Arranged(<<Unmoved("K", "white", <<"e", "1">>), Unmoved("R", "white", <<"h", "1">>),
               Moved("P", "black", <<"e", "2">>), Moved("K", "black", <<"e", "8">>)>>,
             [NoCastlingRights EXCEPT !.white.kingside = TRUE], NoTarget)

Positions == {EnPassantPin, KnightShuffle, CastleThroughPawn}

PositionRequests == {g1f3, g8f6, f3g1, f6g8, e1g1, b5c6, h5a5, NoData}

PositionInit == \E b \in Positions : GameOn(b, "white")

PositionMakeMove == MakeMoveOf(PositionRequests, MaxPositionCalls)

PositionResign == ResignOf(MaxPositionCalls)

PositionOfferDraw == OfferDrawOf(MaxPositionCalls)

PositionNext == PositionMakeMove \/ PositionResign \/ PositionOfferDraw

PositionSpec == PositionInit /\ [][PositionNext]_vars

----------------------------------------------------------------------------
(* Short games from further arranged positions, for the flags of a move,     *)
(* the en-passant capture and the ends of a game                             *)

MaxTacticCalls == 3

d4e3 == Req(<<"d", "4">>, <<"e", "3">>)
h3h8 == Req(<<"h", "3">>, <<"h", "8">>)
h3a3 == Req(<<"h", "3">>, <<"a", "3">>)
d3e3 == Req(<<"d", "3">>, <<"e", "3">>)

\* White: Ke1, e2 (not yet moved).  Black: Kf5, d4.
EnPassantCheck ==
    Arranged(<<Moved("K", "white", <<"e", "1">>), Unmoved("P", "white", <<"e", "2">>),
               Moved("P", "black", <<"d", "4">>), Moved("K", "black", <<"f", "5">>)>>,
             NoCastlingRights, NoTarget)

\* White: Ke1, Rh3.  Black: Ka8.
BackRankCheck ==
    Arranged(<<Moved("K", "white", <<"e", "1">>), Moved("R", "white", <<"h", "3">>),
               Moved("K", "black", <<"a", "8">>)>>,
             NoCastlingRights, NoTarget)

\* White: Ke1, Rb1, Rh3.  Black: Ka5.
LadderMate ==
    Arranged(<<Moved("K", "white", <<"e", "1">>), Moved("R", "white", <<"b", "1">>),
               Moved("R", "white", <<"h", "3">>), Moved("K", "black", <<"a", "5">>)>>,
             NoCastlingRights, NoTarget)

\* White: Ke1, Ng1.  Black: Ke8.
LoneKnight ==
    Arranged(<<Moved("K", "white", <<"e", "1">>), Unmoved("N", "white", <<"g", "1">>),
               Moved("K", "black", <<"e", "8">>)>>,
             NoCastlingRights, NoTarget)

\* White: Kd3.  Black: Kd6.  Neither king is on the cell it started from.
KingsAbroad ==
    Arranged(<<Moved("K", "white", <<"d", "3">>), Moved("K", "black", <<"d", "6">>)>>,
             NoCastlingRights, NoTarget)

\* White: Ke1 and Rh1, neither has moved, the kingside right is set.  Black: Ke8.
CastleReady ==
    Arranged(<<Unmoved("K", "white", <<"e", "1">>), Unmoved("R", "white", <<"h", "1">>),
               Moved("K", "black", <<"e", "8">>)>>,
             [NoCastlingRights EXCEPT !.white.kingside = TRUE], NoTarget)

TacticPositions ==
    {EnPassantCheck, BackRankCheck, LadderMate, LoneKnight, KingsAbroad, CastleReady}

TacticRequests == {e2e4, d4e3, h3h8, h3a3, g1f3, d3e3, e1g1, NoData}

TacticInit == \E b \in TacticPositions : GameOn(b, "white")

TacticMakeMove == MakeMoveOf(TacticRequests, MaxTacticCalls)

TacticResign == ResignOf(MaxTacticCalls)

TacticOfferDraw == OfferDrawOf(MaxTacticCalls)

TacticNext == TacticMakeMove \/ TacticResign \/ TacticOfferDraw

TacticSpec == TacticInit /\ [][TacticNext]_vars

----------------------------------------------------------------------------
(* Short games for the counters, the rights, promotion and the clocks: the   *)
(* positions above and further ones, with moves that take time               *)

MaxRulesCalls == 3

Promote(from, to, promotion) ==
    Data(Sq(from).rank, Sq(from).file, Sq(to).rank, Sq(to).file, promotion)

a7a8 == Req(<<"a", "7">>, <<"a", "8">>)
a7a8N == Promote(<<"a", "7">>, <<"a", "8">>, "N")
a7a8B == Promote(<<"a", "7">>, <<"a", "8">>, "B")
a7a8K == Promote(<<"a", "7">>, <<"a", "8">>, "K")
h1h8 == Req(<<"h", "1">>, <<"h", "8">>)
h1h2 == Req(<<"h", "1">>, <<"h", "2">>)
a8a7 == Req(<<"a", "8">>, <<"a", "7">>)
e8e7 == Req(<<"e", "8">>, <<"e", "7">>)
a1a3 == Req(<<"a", "1">>, <<"a", "3">>)
c1a3 == Req(<<"c", "1">>, <<"a", "3">>)
a5a3 == Req(<<"a", "5">>, <<"a", "3">>)
a2c2 == Req(<<"a", "2">>, <<"c", "2">>)

\* BackRankCheck after forty-nine plies without a capture or a pawn move
FortyNineQuiet == [BackRankCheck EXCEPT !.halfMoveClock = 49]

\* LadderMate after forty-nine plies without a capture or a pawn move
FortyNineMate == [LadderMate EXCEPT !.halfMoveClock = 49]

\* White: Ke1, a pawn on a7.  Black: Ke8.  Both kings have moved.
PromotionRun ==
    Arranged(<<Moved("K", "white", <<"e", "1">>), Moved("P", "white", <<"a", "7">>),
               Moved("K", "black", <<"e", "8">>)>>,
             NoCastlingRights, NoTarget)

\* White: Ke1, a pawn on a7.  Black: Ke8.  Neither king has moved.
PromotionRunKingsAtHome ==
    Arranged(<<Unmoved("K", "white", <<"e", "1">>), Moved("P", "white", <<"a", "7">>),
               Unmoved("K", "black", <<"e", "8">>)>>,
             NoCastlingRights, NoTarget)

\* White: Ke1 (has moved), Rh1.  Black: Ke8, Ra8, Rh8, none has moved, both
\* black rights are set.
CornerRooks ==
    Arranged(<<Moved("K", "white", <<"e", "1">>), Moved("R", "white", <<"h", "1">>),
               Unmoved("R", "black", <<"a", "8">>), Unmoved("K", "black", <<"e", "8">>),
               Unmoved("R", "black", <<"h", "8">>)>>,
             [NoCastlingRights EXCEPT !.black.kingside = TRUE, !.black.queenside = TRUE],
             NoTarget)

\* White: Ke1, a pawn on e2 that has not moved.  Black: Ke8, a pawn on d4.
EnPassantReady ==
    Arranged(<<Moved("K", "white", <<"e", "1">>), Unmoved("P", "white", <<"e", "2">>),
               Moved("P", "black", <<"d", "4">>), Moved("K", "black", <<"e", "8">>)>>,
             NoCastlingRights, NoTarget)

\* White: Ke1, Qa1, Qc1, Qa5.  Black: Ke8.  All three queens can go to a3.
ThreeQueens ==
    Arranged(<<Moved("K", "white", <<"e", "1">>), Moved("Q", "white", <<"a", "1">>),
               Moved("Q", "white", <<"c", "1">>), Moved("Q", "white", <<"a", "5">>),
               Moved("K", "black", <<"e", "8">>)>>,
             NoCastlingRights, NoTarget)

\* White: Ke1, Ra2, Re2.  Black: Kh8, Re8.  The rook on e2 shields the king.
PinnedTwin ==
    Arranged(<<Moved("K", "white", <<"e", "1">>), Moved("R", "white", <<"a", "2">>),
               Moved("R", "white", <<"e", "2">>), Moved("R", "black", <<"e", "8">>),
               Moved("K", "black", <<"h", "8">>)>>,
             NoCastlingRights, NoTarget)

RulesPositions ==
    {EnPassantReady, LoneKnight, CastleReady, FortyNineQuiet, FortyNineMate,
     PromotionRun, PromotionRunKingsAtHome, CornerRooks, ThreeQueens, PinnedTwin}

RulesRequests ==
    {e2e4, d4e3, h3a3, g1f3, e1g1, a7a8, a7a8N, a7a8B, a7a8K, h1h8, h1h2, a8a7, e8e7,
     a1a3, c1a3, a5a3, a2c2, NoData}

\* executeMove's timeSpent: a move thought over, or one that uses up the clock
RulesElapsed == {400, TimeControl}

RulesInit == \E b \in RulesPositions : GameOn(b, "white")

RulesMakeMove ==
    /\ nCalls < MaxRulesCalls
    /\ \E playerId \in {PlayerIds.white, PlayerIds.black}, moveData \in RulesRequests,
          timeSpent \in RulesElapsed :
           GameMakeMove(playerId, moveData, timeSpent)

RulesResign == ResignOf(MaxRulesCalls)

RulesOfferDraw == OfferDrawOf(MaxRulesCalls)

RulesNext == RulesMakeMove \/ RulesResign \/ RulesOfferDraw

RulesSpec == RulesInit /\ [][RulesNext]_vars

----------------------------------------------------------------------------
(* A game and its clone, each taking calls *)

MaxCloneCalls == 3

\* the Game the caller is addressing, as one value
ThisGame ==
    [id |-> twin.id, board |-> board, status |-> status, currentTurn |-> currentTurn,
     result |-> result, resultReason |-> resultReason, moves |-> moves,
     moveNumber |-> moveNumber, players |-> players]

\* Game.clone: a new Game of the same players, then the board cloned and the
\* turn, the move number and a copy of the moves array taken over.  The entries
\* of the array are the objects of the original game.
GameClone ==
    [id |-> "clone", board |-> clone(board), status |-> "active",
     currentTurn |-> currentTurn, result |-> GAME_RESULTS.ONGOING,
     resultReason |-> "none", moves |-> moves, moveNumber |-> moveNumber,
     players |-> [white |-> [timeRemaining |-> TimeControl],
                  black |-> [timeRemaining |-> TimeControl]]]

\* c = game.clone(), the caller keeps addressing game
TakeClone ==
    /\ twin.id = "game"
    /\ twin.other = <<>>
    /\ nCalls < MaxCloneCalls
    /\ twin' = [twin EXCEPT !.other = <<GameClone>>]
    /\ UNCHANGED <<board, status, currentTurn, result, resultReason, moves,
                   moveNumber, players, nCalls, last>>

\* the caller turns to the other of the two games
TurnToOther ==
    /\ twin.other # <<>>
    /\ nCalls < MaxCloneCalls
    /\ twin' = [id |-> twin.other[1].id, other |-> <<ThisGame>>]
    /\ board' = twin.other[1].board
    /\ status' = twin.other[1].status
    /\ currentTurn' = twin.other[1].currentTurn
    /\ result' = twin.other[1].result
    /\ resultReason' = twin.other[1].resultReason
    /\ moves' = twin.other[1].moves
    /\ moveNumber' = twin.other[1].moveNumber
    /\ players' = twin.other[1].players
    /\ UNCHANGED <<nCalls, last>>

\* what a history entry of a game shows as its castlingRights: the rights, as
\* they are now, of the board that made the move
EntryRights(entry, game, other) ==
    IF entry.rightsOf = game.id THEN game.board.castlingRights
    ELSE other.board.castlingRights

\* a game as its caller reads it, the other game being as given
AsRead(game, other) ==
    [board |-> game.board, currentTurn |-> game.currentTurn,
     moveNumber |-> game.moveNumber, status |-> game.status,
     result |-> game.result,
     moves |-> [k \in 1..Len(game.moves) |->
                   [entry |-> game.moves[k],
                    castlingRights |-> EntryRights(game.moves[k], game, other)]]]

\* White: Ke1, Ra1 and Rh1, none has moved, both rights are set.  Black: Ke8.
CastleEitherSide ==
    Arranged(<<Unmoved("R", "white", <<"a", "1">>), Unmoved("K", "white", <<"e", "1">>),
               Unmoved("R", "white", <<"h", "1">>), Moved("K", "black", <<"e", "8">>)>>,
             [NoCastlingRights EXCEPT !.white.kingside = TRUE, !.white.queenside = TRUE],
             NoTarget)

\* White: Ke1 and Ra1, neither has moved, the queenside right is set, and the
\* other rook, come round to a4.  Black: Ke8.
RookLift ==
    Arranged(<<Unmoved("R", "white", <<"a", "1">>), Unmoved("K", "white", <<"e", "1">>),
               Moved("R", "white", <<"a", "4">>), Moved("K", "black", <<"e", "8">>)>>,
             [NoCastlingRights EXCEPT !.white.queenside = TRUE], NoTarget)

e1c1 == Req(<<"e", "1">>, <<"c", "1">>)
a4b4 == Req(<<"a", "4">>, <<"b", "4">>)

ClonePositions == {CornerRooks, CastleReady, CastleEitherSide, RookLift}

CloneRequests == {h1h2, e8e7, a8a7, e1g1, e1c1, a4b4, NoData}

CloneInit == \E b \in ClonePositions : GameOn(b, "white")

CloneMakeMove ==
    /\ nCalls < MaxCloneCalls
    /\ \E playerId \in {PlayerIds.white, PlayerIds.black}, moveData \in CloneRequests :
           GameMakeMove(playerId, moveData, 400)

CloneResign == ResignOf(MaxCloneCalls)

CloneOfferDraw == OfferDrawOf(MaxCloneCalls)

CloneNext ==
    TakeClone \/ TurnToOther \/ CloneMakeMove \/ CloneResign \/ CloneOfferDraw

CloneSpec == CloneInit /\ [][CloneNext]_vars

----------------------------------------------------------------------------
(* Short games on which the validator's queries are asked *)

MaxQueryCalls == 2

QueryPositions == {PinnedTwin, LadderMate, BackRankCheck, EnPassantReady, CastleReady}

QueryRequests == {a2c2, h3h8, h3a3, e2e4, d4e3, e1g1, NoData}

QueryInit == \E b \in QueryPositions : GameOn(b, "white")

QueryMakeMove ==
    /\ nCalls < MaxQueryCalls
    /\ \E playerId \in {PlayerIds.white, PlayerIds.black}, moveData \in QueryRequests :
           GameMakeMove(playerId, moveData, 400)

QueryNext == QueryMakeMove

QuerySpec == QueryInit /\ [][QueryNext]_vars

----------------------------------------------------------------------------
(* The claims *)

\* a scripted line of play: who asks, for what, and the notation expected
Step(playerId, moveData, notation) ==
    [playerId |-> playerId, moveData |-> moveData, notation |-> notation]

\* the game has seen exactly the first k calls of the script, all of them accepted
OnScript(script, k) ==
    /\ nCalls = k
    /\ Len(moves) = k
    /\ status = "active"
    /\ \A j \in 1..k :
          /\ moves[j].fromRank = script[j].moveData.fromRank
          /\ moves[j].fromFile = script[j].moveData.fromFile
          /\ moves[j].toRank = script[j].moveData.toRank
          /\ moves[j].toFile = script[j].moveData.toFile
          /\ moves[j].timeSpent = 0

\* the next call is the script's call k + 1, made at once
AsksNext(script, k) ==
    /\ nCalls' = k + 1
    /\ last'.op = "makeMove"
    /\ last'.playerId = script[k + 1].playerId
    /\ last'.moveData = script[k + 1].moveData
    /\ last'.timeSpent = 0

\* some call was a makeMove that the game accepted / rejected
Accepts == nCalls' = nCalls + 1 /\ last'.op = "makeMove" /\ last'.success
Rejects == nCalls' = nCalls + 1 /\ last'.op = "makeMove" /\ ~last'.success

OpeningScript ==
    <<Step(PlayerIds.white, e2e4, <<"e", "4">>),
      Step(PlayerIds.black, e7e5, <<"e", "5">>),
      Step(PlayerIds.white, g1f3, <<"N", "f", "3">>)>>

\* C1: from a new Game, the calls white e2-e4, black e7-e5, white g1-f3 are each
\* accepted with the notations "e4", "e5", "Nf3"; the history then holds exactly
\* these three entries in order, it is black's turn and the game is active.
C1_OpeningIsPlayed ==
    [][\A k \in 0..2 :
          (OnScript(OpeningScript, k) /\ AsksNext(OpeningScript, k))
          => /\ last'.success
             /\ Len(moves') = k + 1
             /\ SubSeq(moves', 1, k) = moves
             /\ moves'[k + 1].notation = OpeningScript[k + 1].notation
             /\ status' = "active"
             /\ currentTurn' = (IF k = 1 THEN "white" ELSE "black")]_vars

\* C2: a rejected makeMove leaves the board (grid, pieces' coordinates and moved
\* flags, castling rights, en-passant target, counters), the turn, the history,
\* the clocks and the status exactly as they were.
C2_RejectionChangesNothing ==
    [][Rejects => UNCHANGED <<board, status, currentTurn, result, resultReason, moves,
                              moveNumber, players>>]_vars

\* C3: on every position the game reaches, isKingInCheck ends with a boolean for
\* either colour: check detection never re-enters itself through the king's
\* move listing.
C3_CheckDetectionTerminates ==
    \A color \in {"white", "black"} : isKingInCheck(board, color, {}) \in {"T", "F"}

C5_MoverKingNotAttacked ==
    [][Accepts => isKingInCheck(board', currentTurn, {}) # "T"]_vars

MateScript ==
    <<Step(PlayerIds.white, f2f3, <<"f", "3">>),
      Step(PlayerIds.black, e7e5, <<"e", "5">>),
      Step(PlayerIds.white, g2g4, <<"g", "4">>),
      Step(PlayerIds.black, d8h4, <<"Q", "h", "4", "#">>)>>

\* C6: from a new Game the calls f2-f3, e7-e5, g2-g4, d8-h4 are each accepted, and
\* the last one finishes the game: black wins by checkmate and the notation of
\* that move ends in "#".
C6_ForcedMateFinishes ==
    [][\A k \in 0..3 :
          (OnScript(MateScript, k) /\ AsksNext(MateScript, k))
          => /\ last'.success
             /\ Len(moves') = k + 1
             /\ k < 3 => status' = "active"
             /\ k = 3 => /\ status' = "finished"
                         /\ result' = GAME_RESULTS.BLACK_WINS
                         /\ resultReason' = "checkmate"
                         /\ moves'[4].notation[Len(moves'[4].notation)] = "#"]_vars

ShuffleScript ==
    <<Step(PlayerIds.white, g1f3, <<"N", "f", "3">>),
      Step(PlayerIds.black, g8f6, <<"N", "f", "6">>),
      Step(PlayerIds.white, f3g1, <<"N", "g", "1">>),
      Step(PlayerIds.black, f6g8, <<"N", "g", "8">>),
      Step(PlayerIds.white, g1f3, <<"N", "f", "3">>),
      Step(PlayerIds.black, g8f6, <<"N", "f", "6">>),
      Step(PlayerIds.white, f3g1, <<"N", "g", "1">>),
      Step(PlayerIds.black, f6g8, <<"N", "g", "8">>),
      Step(PlayerIds.white, g1f3, <<"N", "f", "3">>)>>

\* C7: when the knights have gone out and back twice and white's knight goes out
\* again, the position after that move (knight on f3, black to move, no castling
\* right, no en-passant target) stands for the third time: the move ends the
\* game as a draw by threefold_repetition.
C7_ThirdOccurrenceDraws ==
    [][(/\ OnScript(ShuffleScript, 8)
        /\ toFEN(board) = toFEN(KnightShuffle)
        /\ AsksNext(ShuffleScript, 8)
        /\ last'.success)
       => /\ status' = "finished"
          /\ result' = GAME_RESULTS.DRAW
          /\ resultReason' = "threefold_repetition"]_vars

\* placement, side to move, castling rights and en-passant target of the start
StartKey ==
    <<"r", "n", "b", "q", "k", "b", "n", "r", "/",
      "p", "p", "p", "p", "p", "p", "p", "p", "/",
      "8", "/", "8", "/", "8", "/", "8", "/",
      "P", "P", "P", "P", "P", "P", "P", "P", "/",
      "R", "N", "B", "Q", "K", "B", "N", "R",
      " ", "w", " ", "K", "Q", "k", "q", " ", "-">>

\* C8: the key toFEN gives for the board depends on the castling rights and on
\* the en-passant target, and the key of the start position begins with the
\* standard encoding of placement, side to move, castling rights and target.
C8_KeyEncodesPosition ==
    /\ toFEN([board EXCEPT !.castlingRights =
                [board.castlingRights EXCEPT
                    !.white.kingside = ~board.castlingRights.white.kingside]])
          # toFEN(board)
    /\ toFEN([board EXCEPT !.enPassantTarget =
                IF board.enPassantTarget = NoTarget THEN <<"e", "3">> ELSE NoTarget])
          # toFEN(board)
    /\ (board = NewBoard /\ currentTurn = "white")
       => /\ Len(toFEN(board)) >= Len(StartKey)
          /\ SubSeq(toFEN(board), 1, Len(StartKey)) = StartKey

\* the rules' notion of attack: the cell is one the piece could capture on, a
\* pawn's being its two forward diagonals whether or not anything stands there
Attacks(b, p, rank, file) ==
    CASE p.type = "P" -> rank = p.rank + PawnDirection(p) /\ Abs(file - p.file) = 1
      [] p.type = "N" -> \/ (Abs(rank - p.rank) = 2 /\ Abs(file - p.file) = 1)
                         \/ (Abs(rank - p.rank) = 1 /\ Abs(file - p.file) = 2)
      [] p.type = "K" -> Max(Abs(rank - p.rank), Abs(file - p.file)) = 1
      [] p.type = "R" -> isStraightMove(p, rank, file) /\ isPathClear(p, rank, file, b)
      [] p.type = "B" -> isDiagonalMove(p, rank, file) /\ isPathClear(p, rank, file, b)
      [] p.type = "Q" -> /\ isStraightMove(p, rank, file) \/ isDiagonalMove(p, rank, file)
                         /\ isPathClear(p, rank, file, b)
      [] OTHER -> FALSE

Attacked(b, rank, file, attackingColor) ==
    \E i \in 0..63 : /\ CellAt(b, i).color = attackingColor
                     /\ Attacks(b, CellAt(b, i), rank, file)

\* the call asks for a two-file move along the rank of a king of the side to move
CastlingAttempt(moveData) ==
    /\ moveData.complete
    /\ getPiece(board, moveData.fromRank, moveData.fromFile).type = "K"
    /\ getPiece(board, moveData.fromRank, moveData.fromFile).color = currentTurn
    /\ moveData.toRank = moveData.fromRank
    /\ Abs(moveData.toFile - moveData.fromFile) = 2

\* the preconditions of castling, in the position before the call
CastlingAllowed(moveData) ==
    LET king == getPiece(board, moveData.fromRank, moveData.fromFile)
        isKingside == moveData.toFile > moveData.fromFile
        rookFile == IF isKingside THEN 7 ELSE 0
        rook == getPiece(board, king.rank, rookFile)
        step == IF isKingside THEN 1 ELSE 0 - 1
    IN /\ ~king.hasMoved
       /\ ~Attacked(board, king.rank, king.file, Opp(king.color))
       /\ IF isKingside THEN board.castlingRights[king.color].kingside
          ELSE board.castlingRights[king.color].queenside
       /\ rook.type = "R" /\ rook.color = king.color /\ ~rook.hasMoved
       /\ \A file \in (Min(king.file, rookFile) + 1)..(Max(king.file, rookFile) - 1) :
             isEmpty(board, king.rank, file)
       /\ ~Attacked(board, king.rank, king.file + step, Opp(king.color))
       /\ ~Attacked(board, king.rank, king.file + 2 * step, Opp(king.color))

\* C9: a two-file move of the king is accepted only if the king and the rook of
\* that side are unmoved, the right is set, the cells between them are empty,
\* and the king's cell, the cell it crosses and the cell it lands on are not
\* attacked.
C9_CastlingOnlyWhenAllowed ==
    [][(Accepts /\ CastlingAttempt(last'.moveData)) => CastlingAllowed(last'.moveData)]_vars

\* C10: when a castling attempt of the player to move onto a free cell breaks a
\* precondition and is rejected, the reason is INVALID_CASTLING and the board
\* is unchanged.
C10_CastlingRejectedAsSuch ==
    [][(/\ Rejects
        /\ status = "active"
        /\ last'.playerId = PlayerIds[currentTurn]
        /\ CastlingAttempt(last'.moveData)
        /\ isEmpty(board, last'.moveData.toRank, last'.moveData.toFile)
        /\ ~CastlingAllowed(last'.moveData))
       => /\ last'.error = "INVALID_CASTLING"
          /\ board' = board]_vars

\* the call is a makeMove of the player to move in an active game
AsksInTurn ==
    /\ nCalls' = nCalls + 1
    /\ last'.op = "makeMove"
    /\ status = "active"
    /\ last'.playerId = PlayerIds[currentTurn]

\* the request moves a pawn of the side to move one step diagonally forward onto
\* an empty cell, with an enemy pawn on the cell beside it
EnPassantAttempt(moveData) ==
    LET piece == getPiece(board, moveData.fromRank, moveData.fromFile)
        beside == getPiece(board, moveData.fromRank, moveData.toFile)
    IN /\ moveData.complete
       /\ piece.type = "P" /\ piece.color = currentTurn
       /\ moveData.toRank = moveData.fromRank + PawnDirection(piece)
       /\ Abs(moveData.toFile - moveData.fromFile) = 1
       /\ isEmpty(board, moveData.toRank, moveData.toFile)
       /\ beside.type = "P" /\ beside.color = Opp(currentTurn)

\* the latest accepted move was the double step of the pawn beside
JustDoubleStepped(moveData) ==
    /\ Len(moves) > 0
    /\ moves[Len(moves)].piece = "P"
    /\ Abs(moves[Len(moves)].toRank - moves[Len(moves)].fromRank) = 2
    /\ moves[Len(moves)].toRank = moveData.fromRank
    /\ moves[Len(moves)].toFile = moveData.toFile

\* the position an en-passant capture leads to: the capturer on the target, the
\* jumped pawn gone
AfterEnPassant(moveData) ==
    removePiece(
        setPiece(removePiece(board, moveData.fromRank, moveData.fromFile),
                 getPiece(board, moveData.fromRank, moveData.fromFile),
                 moveData.toRank, moveData.toFile),
        moveData.fromRank, moveData.toFile)

\* the king of the colour stands on a cell the other colour attacks
KingAttacked(b, color) ==
    \E i \in 0..63 : /\ CellAt(b, i).type = "K" /\ CellAt(b, i).color = color
                     /\ Attacked(b, i \div 8, i % 8, Opp(color))

\* C11: an accepted double step of a pawn sets the en-passant target to the cell
\* jumped over; the capture onto it by a pawn beside, asked on the next ply, is
\* accepted whenever the capturer's king is safe once the jumped pawn is gone,
\* and removes that pawn; asked when the double step is no longer the latest
\* move, the same capture is rejected.
C11_EnPassantNextPlyOnly ==
    [][/\ (/\ Accepts
           /\ getPiece(board, last'.moveData.fromRank, last'.moveData.fromFile).type = "P"
           /\ Abs(last'.moveData.toRank - last'.moveData.fromRank) = 2)
          => board'.enPassantTarget =
                 positionToAlgebraic(last'.moveData.fromFile,
                     (last'.moveData.fromRank + last'.moveData.toRank) \div 2)
       /\ (/\ AsksInTurn
           /\ EnPassantAttempt(last'.moveData)
           /\ JustDoubleStepped(last'.moveData)
           /\ ~KingAttacked(AfterEnPassant(last'.moveData), currentTurn))
          => /\ last'.success
             /\ isEmpty(board', last'.moveData.fromRank, last'.moveData.toFile)
             /\ getPiece(board', last'.moveData.toRank, last'.moveData.toFile).type = "P"
       /\ (/\ AsksInTurn
           /\ EnPassantAttempt(last'.moveData)
           /\ Len(moves) > 0
           /\ ~JustDoubleStepped(last'.moveData))
          => ~last'.success]_vars

\* C12: the isCheck flag of an accepted move says whether the opponent's king is
\* attacked in the position the move leads to, and the scratch board the flag is
\* computed on holds the pieces of that position and no others.
C12_CheckFlagIsTrue ==
    [][Accepts
       => /\ moves'[Len(moves')].isCheck <=> KingAttacked(board', Opp(currentTurn))
          /\ ScratchBoard(board, [last'.moveData EXCEPT !.complete = TRUE]).squares
                = board'.squares]_vars

\* the colour has a move that leaves its own king unattacked: some piece of it,
\* moved to one of the cells it can go to, leads to such a position
HasLegalMove(b, color) ==
    \E i \in 0..63 :
        /\ CellAt(b, i).color = color
        /\ LET Some(possibleMoves) ==
                   \E k \in 1..Len(possibleMoves.list) :
                       ~KingAttacked(
                            makeMove(b, [fromRank |-> i \div 8, fromFile |-> i % 8,
                                         toRank |-> possibleMoves.list[k].toRank,
                                         toFile |-> possibleMoves.list[k].toFile,
                                         promotion |-> ""]).board,
                            color)
           IN Some(getPossibleMoves(b, CellAt(b, i), {}))

\* C13: the isCheckmate flag of an accepted move says that, in the position the
\* move leads to, the opponent's king is attacked and the opponent has no legal
\* move; the isStalemate flag, that the king is not attacked and the opponent
\* has no legal move.
C13_MateFlagsAreTrue ==
    [][Accepts
       => /\ moves'[Len(moves')].isCheckmate
                <=> (/\ KingAttacked(board', Opp(currentTurn))
                     /\ ~HasLegalMove(board', Opp(currentTurn)))
          /\ moves'[Len(moves')].isStalemate
                <=> (/\ ~KingAttacked(board', Opp(currentTurn))
                     /\ ~HasLegalMove(board', Opp(currentTurn)))]_vars

\* C14: on the validator's board, for each colour, getAllLegalMoves, isCheckmate
\* and isStalemate each give an answer; the list is empty exactly when one of
\* the two holds, and then it is checkmate if the king is in check and
\* stalemate if it is not, never both.
C14_NoMovesIsMateOrStalemate ==
    \A color \in {"white", "black"} :
        LET Agree(all, mate, stale, inCheck) ==
                /\ ~all.threw /\ mate.res \in {"T", "F"} /\ stale.res \in {"T", "F"}
                /\ inCheck \in {"T", "F"}
                /\ (all.n = 0) <=> (mate.res = "T" \/ stale.res = "T")
                /\ ~(mate.res = "T" /\ stale.res = "T")
                /\ mate.res = "T" => inCheck = "T"
                /\ stale.res = "T" => inCheck = "F"
        IN Agree(getAllLegalMoves(board, color), isCheckmate(board, board, color),
                 isStalemate(board, board, color), isKingInCheck(board, color, {}))

\* C15: the clone of the board holds on each of the 64 cells a piece of the same
\* type, colour and moved flag as the original, or nothing where the original
\* holds nothing, and has the same castling rights, en-passant target,
\* half-move clock and full-move number.
C15_CloneEqualsOriginal ==
    /\ \A i \in 0..63 :
          /\ CellAt(clone(board), i).type = CellAt(board, i).type
          /\ CellAt(clone(board), i).color = CellAt(board, i).color
          /\ CellAt(clone(board), i).hasMoved = CellAt(board, i).hasMoved
    /\ clone(board).castlingRights = board.castlingRights
    /\ clone(board).enPassantTarget = board.enPassantTarget
    /\ clone(board).halfMoveClock = board.halfMoveClock
    /\ clone(board).fullMoveNumber = board.fullMoveNumber

\* C16: the record Board.makeMove returns for an accepted move holds the
\* castling rights, the en-passant target and the half-move clock of the board
\* before the move, and the piece the move takes off the board (for an
\* en-passant capture the jumped pawn), whatever the kind of move.
C16_RecordHoldsPriorState ==
    [][Accepts
       => LET Holds(made) ==
                  /\ made.info.castlingRights = board.castlingRights
                  /\ made.info.enPassantTarget = board.enPassantTarget
                  /\ made.info.halfMoveClock = board.halfMoveClock
                  /\ made.info.capturedPiece =
                         IF EnPassantAttempt(last'.moveData)
                         THEN getPiece(board, last'.moveData.fromRank,
                                       last'.moveData.toFile)
                         ELSE getPiece(board, last'.moveData.toRank,
                                       last'.moveData.toFile)
          IN Holds(makeMove(board, last'.moveData))]_vars

\* C17: when an accepted move brings a terminal condition (checkmate, stalemate,
\* repetition, fifty moves, insufficient material), the game ends with the
\* result and reason of that condition whatever time the move took; the clock
\* of the mover is charged, and a timeout declared, only when none did.
C17_TerminalConditionFirst ==
    [][Accepts
       => LET Ends(outcome) ==
                  outcome.status = "finished"
                  => /\ status' = "finished"
                     /\ result' = outcome.result
                     /\ resultReason' = outcome.reason
                     /\ players' = players
          IN Ends(TerminalOutcome(moves'[Len(moves')], board'))]_vars

\* C18: once the game is finished it stays finished: every further call is
\* answered as a failure (a move request with GAME_NOT_ACTIVE) and leaves the
\* status, the result and its reason, the turn, the history, the clocks and the
\* board as they are.
C18_FinishedIsFinal ==
    [][status = "finished"
       => /\ status' = "finished"
          /\ ~last'.success
          /\ last'.op = "makeMove" => last'.reason = "GAME_NOT_ACTIVE"
          /\ UNCHANGED <<board, result, resultReason, currentTurn, moves, moveNumber,
                         players>>]_vars

\* C18 happens: a game that finished after at least one move has been asked
\* for a complete move by the player whose turn it was, and has refused
C18_FinishedGameRefuses ==
    /\ status = "finished"
    /\ ~last.success
    /\ last.op = "makeMove"
    /\ last.playerId = PlayerIds[currentTurn]
    /\ last.moveData.complete
    /\ Len(moves) > 0

\* C19: every answer of makeMove carries a success field, and a request on a
\* game that is not active, else from a player who is not to move, else with a
\* coordinate missing, is answered with success false and the error code
\* GAME_NOT_ACTIVE, NOT_YOUR_TURN or INVALID_MOVE_DATA, tested in that order.
C19_RefusalsCarrySuccessAndError ==
    [][(nCalls' = nCalls + 1 /\ last'.op = "makeMove")
       => LET Refuses(code) == ~last'.success /\ last'.error = code
          IN /\ last'.hasSuccess
             /\ status # "active" => Refuses("GAME_NOT_ACTIVE")
             /\ (status = "active" /\ last'.playerId # PlayerIds[currentTurn])
                => Refuses("NOT_YOUR_TURN")
             /\ (status = "active" /\ last'.playerId = PlayerIds[currentTurn]
                 /\ ~last'.moveData.complete)
                => Refuses("INVALID_MOVE_DATA")]_vars

\* C20: a draw offer from an id that is neither the white nor the black player
\* is answered as a failure and leaves the game active and unchanged.
C20_StrangerCannotDraw ==
    [][(nCalls' = nCalls + 1 /\ last'.op = "offerDraw" /\ status = "active"
        /\ getPlayerColor(last'.playerId) = "none")
       => /\ ~last'.success
          /\ UNCHANGED <<board, status, result, resultReason, currentTurn, moves,
                         moveNumber, players>>]_vars

\* C21: a resignation by either player of an active game, whoever is to move,
\* finishes the game with the other colour as winner and the reason
\* resignation; on a game that is not active, or from an id that is neither
\* player's, it is answered as a failure and changes nothing.
C21_ResignEndsForTheOther ==
    [][(nCalls' = nCalls + 1 /\ last'.op = "resign")
       => IF status = "active" /\ last'.playerId \in {PlayerIds.white, PlayerIds.black}
          THEN /\ last'.success
               /\ status' = "finished"
               /\ resultReason' = "resignation"
               /\ result' = IF last'.playerId = PlayerIds.white
                            THEN GAME_RESULTS.BLACK_WINS ELSE GAME_RESULTS.WHITE_WINS
          ELSE /\ ~last'.success
               /\ UNCHANGED <<board, status, result, resultReason, currentTurn, moves,
                              moveNumber, players>>]_vars

\* C21 happens: the player who was not to move has resigned and lost
C21_ResignedOutOfTurn ==
    /\ last.op = "resign"
    /\ last.success
    /\ last.playerId = PlayerIds[Opp(currentTurn)]
    /\ status = "finished"
    /\ resultReason = "resignation"
    /\ result = IF currentTurn = "white" THEN GAME_RESULTS.WHITE_WINS
                ELSE GAME_RESULTS.BLACK_WINS

\* C22: every accepted move that takes an opposing piece off the board, an
\* en-passant capture with its empty destination cell included, is recorded
\* with isCapture true and a notation that holds the capture marker "x",
\* which for a pawn follows the letter of the file it came from.
C22_CapturesAreMarked ==
    [][Accepts
       => LET entry == moves'[Len(moves')]
              Marked(note) ==
                  /\ entry.isCapture
                  /\ \E k \in 1..Len(note) : note[k] = "x"
                  /\ entry.piece = "P"
                     => /\ Len(note) >= 2
                        /\ note[1] = FILES[entry.fromFile + 1]
                        /\ note[2] = "x"
          IN Len(PiecesOf(board', Opp(currentTurn))) < Len(PiecesOf(board, Opp(currentTurn)))
             => Marked(entry.notation)]_vars

\* C23: a game is ended with the reason fifty_move_rule only when a hundred
\* plies have gone by without a capture or a pawn move.
C23_FiftyFullMoves ==
    [][(resultReason' = "fifty_move_rule" /\ resultReason # "fifty_move_rule")
       => board'.halfMoveClock >= 100]_vars

\* the home rank of a colour's king and rooks
HomeRank(color) == IF color = "white" THEN 0 ELSE 7

\* C24: a castling right that is false never becomes true again; and after an
\* accepted move of a king both rights of its colour are false, after a rook
\* has left a home corner of its colour the right of that corner is false, and
\* after a capture on a home corner the right of that corner is false.
C24_CastlingRightsOnlyFall ==
    [][/\ \A color \in {"white", "black"}, side \in {"kingside", "queenside"} :
              ~board.castlingRights[color][side] => ~board'.castlingRights[color][side]
       /\ Accepts
          => LET entry == moves'[Len(moves')]
                 rights == board'.castlingRights
                 SideOf(file) == IF file = 0 THEN "queenside" ELSE "kingside"
             IN /\ entry.piece = "K"
                   => ~rights[currentTurn].kingside /\ ~rights[currentTurn].queenside
                /\ (entry.piece = "R" /\ entry.fromRank = HomeRank(currentTurn)
                    /\ entry.fromFile \in {0, 7})
                   => ~rights[currentTurn][SideOf(entry.fromFile)]
                /\ (entry.isCapture /\ entry.toRank = HomeRank(Opp(currentTurn))
                    /\ entry.toFile \in {0, 7})
                   => ~rights[Opp(currentTurn)][SideOf(entry.toFile)]]_vars

\* C24 happens: the rook on h8 has been captured where it stood, and Black has
\* lost the kingside right and kept the queenside one
C24_CornerRookCaptured ==
    /\ Len(moves) > 0
    /\ moves[Len(moves)].isCapture
    /\ moves[Len(moves)].toRank = 7 /\ moves[Len(moves)].toFile = 7
    /\ moves[Len(moves)].capturedPiece = "R"
    /\ ~board.castlingRights.black.kingside
    /\ board.castlingRights.black.queenside

\* the entry is a pawn's step of two ranks
IsDoubleStep(entry) == entry.piece = "P" /\ Abs(entry.toRank - entry.fromRank) = 2

\* C25: after every accepted move the en-passant target is the cell the pawn
\* has jumped over when the move was a pawn's double step, and none otherwise,
\* so that a target is gone after the ply that follows the double step.
C25_TargetLastsOnePly ==
    [][Accepts
       => LET entry == moves'[Len(moves')]
              forward == IF currentTurn = "white" THEN 1 ELSE -1
          IN board'.enPassantTarget =
                 IF IsDoubleStep(entry)
                 THEN positionToAlgebraic(entry.fromFile, entry.fromRank + forward)
                 ELSE NoTarget]_vars

\* C25 happens: a double step has been answered by a move, and the target the
\* double step had set is gone
C25_TargetGoneAfterReply ==
    /\ Len(moves) >= 2
    /\ IsDoubleStep(moves[Len(moves) - 1])
    /\ ~IsDoubleStep(moves[Len(moves)])
    /\ board.enPassantTarget = NoTarget

\* C26: every accepted move sets the half-move clock to 0 when it moves a pawn
\* or takes an opposing piece off the board (en passant included), and adds
\* exactly 1 to it otherwise.
C26_HalfMoveClockStep ==
    [][Accepts
       => LET entry == moves'[Len(moves')]
              taken == Len(PiecesOf(board', Opp(currentTurn)))
                           < Len(PiecesOf(board, Opp(currentTurn)))
          IN board'.halfMoveClock =
                 IF entry.piece = "P" \/ taken THEN 0 ELSE board.halfMoveClock + 1]_vars

\* C26 happens: a pawn move has reset the clock and the king move that
\* answered it has brought it to 1
C26_ResetThenCounted ==
    /\ Len(moves) = 2
    /\ moves[1].piece = "P"
    /\ moves[2].piece = "K" /\ ~moves[2].isCapture
    /\ board.halfMoveClock = 1

\* C27: a pawn's step onto the far rank is accepted with promotion Q, R, B, N
\* or none (then a queen) and puts a piece of that variant and of the mover's
\* colour where the pawn arrives; any other promotion value is refused with
\* INVALID_PROMOTION_PIECE; and no pawn stands on the first or the last rank
\* when a makeMove call has returned.
C27_PromotionReplacesPawn ==
    [][(nCalls' = nCalls + 1 /\ last'.op = "makeMove")
       => LET moveData == last'.moveData
              pawn == getPiece(board, moveData.fromRank, moveData.fromFile)
              arrived == getPiece(board', moveData.toRank, moveData.toFile)
              Steps ==
                  /\ AsksInTurn
                  /\ moveData.complete
                  /\ pawn.type = "P" /\ pawn.color = currentTurn
                  /\ moveData.toRank = 7 - HomeRank(currentTurn)
                  /\ moveData.toRank = moveData.fromRank + PawnDirection(pawn)
                  /\ moveData.toFile = moveData.fromFile
                  /\ isEmpty(board, moveData.toRank, moveData.toFile)
          IN /\ Steps
                => IF moveData.promotion \in {"", "Q", "R", "B", "N"}
                   THEN /\ last'.success
                        /\ arrived.color = currentTurn
                        /\ arrived.type = IF moveData.promotion = "" THEN "Q"
                                          ELSE moveData.promotion
                        /\ isEmpty(board', moveData.fromRank, moveData.fromFile)
                   ELSE /\ ~last'.success
                        /\ last'.error = "INVALID_PROMOTION_PIECE"
                        /\ board' = board
             /\ \A file \in 0..7 : /\ getPiece(board', 0, file).type # "P"
                                   /\ getPiece(board', 7, file).type # "P"]_vars

\* the terminal conditions that hold in position b once the mover has moved,
\* in the order of their priority: the opponent is mated, is stalemated, the
\* position has come three times, the half-move clock is at its threshold, the
\* material cannot mate
TerminalReasons(b, mover) ==
    LET stuck == ~HasLegalMove(b, Opp(mover))
        attacked == KingAttacked(b, Opp(mover))
    IN <<[reason |-> "checkmate", holds |-> attacked /\ stuck],
         [reason |-> "stalemate", holds |-> ~attacked /\ stuck],
         [reason |-> "threefold_repetition", holds |-> isDrawByRepetition(b)],
         [reason |-> "fifty_move_rule", holds |-> isDrawByFiftyMoveRule(b)],
         [reason |-> "insufficient_material", holds |-> isDrawByInsufficientMaterial(b)]>>

\* C28: when an accepted move, made in time, brings several terminal
\* conditions at once, the game ends with the reason of the first of them in
\* the order checkmate, stalemate, threefold repetition, move-count rule,
\* insufficient material.
C28_HighestPriorityReason ==
    [][(Accepts /\ players'[currentTurn].timeRemaining > 0)
       => LET First(reasons) ==
                  LET held == {k \in 1..Len(reasons) : reasons[k].holds}
                  IN Cardinality(held) >= 2
                     => /\ status' = "finished"
                        /\ resultReason'
                               = reasons[CHOOSE k \in held : \A j \in held : k <= j].reason
          IN First(TerminalReasons(board', currentTurn))]_vars

\* the types of the pieces of a colour, the king left out
Material(b, color) ==
    LET cells == PiecesOf(b, color)
    IN [k \in {j \in 1..Len(cells) : CellAt(b, cells[j]).type # "K"} |->
            CellAt(b, cells[k]).type]

\* king against king, king and one bishop or knight against king, or king and
\* bishop against king and bishop
CannotMate(b) ==
    LET Count(color) == Cardinality(DOMAIN Material(b, color))
        Has(color, types) ==
            Count(color) = 1 /\ \A k \in DOMAIN Material(b, color) :
                                    Material(b, color)[k] \in types
    IN \/ Count("white") = 0 /\ Count("black") = 0
       \/ Has("white", {"B", "N"}) /\ Count("black") = 0
       \/ Has("black", {"B", "N"}) /\ Count("white") = 0
       \/ Has("white", {"B"}) /\ Has("black", {"B"})

\* C29: after an accepted move that is neither checkmate nor stalemate and
\* brings neither the repetition nor the move-count draw, the game ends as a
\* draw with the reason insufficient_material exactly when what is left is
\* king against king, king and one minor piece against king, or king and
\* bishop against king and bishop.
C29_DrawnWhenNoMatingMaterial ==
    [][(/\ Accepts
        /\ ~moves'[Len(moves')].isCheckmate /\ ~moves'[Len(moves')].isStalemate
        /\ ~isDrawByRepetition(board') /\ ~isDrawByFiftyMoveRule(board'))
       => ((/\ status' = "finished"
            /\ result' = GAME_RESULTS.DRAW
            /\ resultReason' = "insufficient_material")
           <=> CannotMate(board'))]_vars

\* C30: an accepted move that brings no terminal condition leaves the mover
\* with max(0, time remaining - seconds spent + increment) and the opponent's
\* clock as it was, and ends the game as a loss on time for the mover exactly
\* when that is 0; no clock is ever negative; and a refused request, a
\* resignation and a draw offer change no clock.
C30_ClockChargedPerMove ==
    [][/\ (Accepts /\ TerminalOutcome(moves'[Len(moves')], board').status = "active")
          => LET charged == players[currentTurn].timeRemaining - last'.timeSpent
                               + Increment
                 left == players'[currentTurn].timeRemaining
                 lostOnTime ==
                     /\ status' = "finished"
                     /\ resultReason' = "timeout"
                     /\ result' = IF currentTurn = "white" THEN GAME_RESULTS.BLACK_WINS
                                  ELSE GAME_RESULTS.WHITE_WINS
             IN /\ left = IF charged < 0 THEN 0 ELSE charged
                /\ players'[Opp(currentTurn)] = players[Opp(currentTurn)]
                /\ lostOnTime <=> left = 0
                /\ left > 0 => status' = "active"
       /\ ~Accepts => players' = players
       /\ \A color \in {"white", "black"} : players'[color].timeRemaining >= 0]_vars

\* C30 happens: White has spent 400 s on one move and 900 s on the next, is
\* left with 0 s and not less, and has lost on time
C30_ClockStopsAtZero ==
    /\ Len(moves) = 3
    /\ moves[1].timeSpent = 400 /\ moves[3].timeSpent = TimeControl
    /\ players.white.timeRemaining = 0
    /\ status = "finished" /\ resultReason = "timeout"
    /\ result = GAME_RESULTS.BLACK_WINS

\* C31: accepted moves alternate between White and Black, White
\* first; the turn flips after each accepted move that does not end the game;
\* a refused request never changes the turn; and the move number grows by
\* exactly one after each accepted move of Black, whether it ends the game or
\* not, and by nothing after a move of White.
C31_MoveNumberAfterEveryBlackMove ==
    [][/\ Accepts
          => /\ moves'[Len(moves')].player = currentTurn
             /\ status' = "active" => currentTurn' = Opp(currentTurn)
             /\ moveNumber' = IF currentTurn = "black" THEN moveNumber + 1
                              ELSE moveNumber
       /\ ~Accepts => currentTurn' = currentTurn /\ moveNumber' = moveNumber]_vars

\* C32: isMoveLegal reports the first check that fails, in this order and
\* with these codes: a coordinate off the board INVALID_POSITION, an empty
\* source NO_PIECE, a piece of the other colour WRONG_COLOR, source equal to
\* destination SAME_POSITION, a destination held by the mover's colour
\* FRIENDLY_FIRE, a move the piece cannot make INVALID_PIECE_MOVE, and a move
\* the piece can make that leaves the mover's king attacked KING_IN_CHECK.
C32_FirstFailureReported ==
    [][(AsksInTurn /\ last'.moveData.complete)
       => LET moveData == last'.moveData
              piece == getPiece(board, moveData.fromRank, moveData.fromFile)
              targetPiece == getPiece(board, moveData.toRank, moveData.toFile)
              Refuses(code) == ~last'.success /\ last'.error = code
              Geometry(can) ==
                  IF can = "F" THEN Refuses("INVALID_PIECE_MOVE")
                  ELSE (can = "T" /\ KingAttacked(makeMove(board, moveData).board,
                                                  currentTurn))
                       => Refuses("KING_IN_CHECK")
          IN IF ~isValidPosition(moveData.fromRank, moveData.fromFile)
                \/ ~isValidPosition(moveData.toRank, moveData.toFile)
             THEN Refuses("INVALID_POSITION")
             ELSE IF piece = NoPiece THEN Refuses("NO_PIECE")
             ELSE IF piece.color # currentTurn THEN Refuses("WRONG_COLOR")
             ELSE IF moveData.fromRank = moveData.toRank
                     /\ moveData.fromFile = moveData.toFile
             THEN Refuses("SAME_POSITION")
             ELSE IF targetPiece # NoPiece /\ targetPiece.color = currentTurn
             THEN Refuses("FRIENDLY_FIRE")
             ELSE Geometry(canMoveTo(piece, moveData.toRank, moveData.toFile, board))]_vars

\* the cells of the other pieces of the mover's type and colour that could
\* make the move to the same destination without leaving their king attacked
Rivals(b, entry, color) ==
    {i \in 0..63 :
        /\ CellAt(b, i).type = entry.piece /\ CellAt(b, i).color = color
        /\ i # entry.fromRank * 8 + entry.fromFile
        /\ canMoveTo(CellAt(b, i), entry.toRank, entry.toFile, b) = "T"
        /\ ~KingAttacked(setPiece(removePiece(b, i \div 8, i % 8), CellAt(b, i),
                                  entry.toRank, entry.toFile), color)}

\* C33: the notation of an accepted move of a piece, castling apart, carries a
\* disambiguator exactly when another piece of the same type and colour could
\* legally go to the same destination: the mover's file letter when none of
\* them is on the mover's file, else the rank digit when none of them is on
\* the mover's rank, else the whole source square.
C33_MinimalDisambiguation ==
    [][(Accepts /\ moves'[Len(moves')].piece # "P" /\ ~moves'[Len(moves')].isCastling)
       => LET entry == moves'[Len(moves')]
              Told(rivals) ==
                  LET text == IF rivals = {} THEN <<>>
                              ELSE IF \A i \in rivals : i % 8 # entry.fromFile
                              THEN <<FILES[entry.fromFile + 1]>>
                              ELSE IF \A i \in rivals : i \div 8 # entry.fromRank
                              THEN <<RANKS[entry.fromRank + 1]>>
                              ELSE positionToAlgebraic(entry.fromFile, entry.fromRank)
                      stem == <<entry.piece>> \o text
                              \o (IF entry.isCapture THEN <<"x">> ELSE <<>>)
                              \o positionToAlgebraic(entry.toFile, entry.toRank)
                  IN /\ Len(entry.notation) >= Len(stem)
                     /\ SubSeq(entry.notation, 1, Len(stem)) = stem
          IN Told(Rivals(board, entry, currentTurn))]_vars

\* C33 happens: a queen has gone from a1 to a3 where the queens on a5 and c1
\* could have gone too, and the move is written with the whole source square
C33_WholeSquareNeeded ==
    /\ Len(moves) > 0
    /\ moves[Len(moves)].piece = "Q"
    /\ Len(moves[Len(moves)].notation) >= 5
    /\ SubSeq(moves[Len(moves)].notation, 1, 5) = <<"Q", "a", "1", "a", "3">>

\* C34: once a game has a clone, a makeMove, resign or offerDraw call on either
\* of the two leaves the other one as it was: its board, side to move, move
\* number, move history, status and result read the same after the call.
C34_CloneAndOriginalApart ==
    [][(nCalls' = nCalls + 1 /\ twin.other # <<>>)
       => AsRead(twin'.other[1], ThisGame') = AsRead(twin.other[1], ThisGame)]_vars

\* the listing of a piece names exactly the cells canMoveTo accepts, and both
\* return
ListsWhatCanMoveTo(b, p) ==
    LET Agrees(m) ==
            /\ ~m.div
            /\ \A k \in 1..Len(m.list) : isValidPosition(m.list[k].toRank, m.list[k].toFile)
            /\ \A toRank \in 0..7, toFile \in 0..7 :
                   HasDest(m.list, toRank, toFile) <=> canMoveTo(p, toRank, toFile, b) = "T"
    IN Agrees(getPossibleMoves(b, p, {}))

\* C35: for every piece on the board, whatever its variant, the destinations
\* getPossibleMoves lists are exactly the cells for which canMoveTo is true.
C35_ListingMatchesCanMoveTo ==
    \A color \in {"white", "black"} :
        \A k \in 1..Len(PiecesOf(board, color)) :
            ListsWhatCanMoveTo(board, CellAt(board, PiecesOf(board, color)[k]))

\* the call is an accepted move of a king two files along its rank
CastlingAccepted ==
    /\ Accepts
    /\ getPiece(board, last'.moveData.fromRank, last'.moveData.fromFile).type = "K"
    /\ last'.moveData.toRank = last'.moveData.fromRank
    /\ Abs(last'.moveData.toFile - last'.moveData.fromFile) = 2

\* the piece of the type and colour stands on the cell and holds its coordinates
StandsOn(b, type, color, rank, file) ==
    /\ getPiece(b, rank, file).type = type
    /\ getPiece(b, rank, file).color = color
    /\ getPiece(b, rank, file).rank = rank
    /\ getPiece(b, rank, file).file = file

\* C36: after an accepted castling move the king stands on the g-file
\* (kingside) or the c-file (queenside) of its home rank and the rook on the
\* f-file or the d-file, the e-file cell and the rook's corner are empty, both
\* pieces hold the coordinates of their new cells, and both castling rights of
\* the mover are false.
C36_CastledKingAndRook ==
    [][CastlingAccepted
       => LET home == HomeRank(currentTurn)
              kingside == last'.moveData.toFile > last'.moveData.fromFile
          IN /\ StandsOn(board', "K", currentTurn, home, IF kingside THEN 6 ELSE 2)
             /\ StandsOn(board', "R", currentTurn, home, IF kingside THEN 5 ELSE 3)
             /\ isEmpty(board', home, 4)
             /\ isEmpty(board', home, IF kingside THEN 7 ELSE 0)
             /\ ~board'.castlingRights[currentTurn].kingside
             /\ ~board'.castlingRights[currentTurn].queenside]_vars

\* White has castled queenside: king on c1, rook on d1, the last call accepted
C36_CastledQueenside ==
    /\ last.op = "makeMove" /\ last.success /\ last.moveData = e1c1
    /\ StandsOn(board, "K", "white", 0, 2)
    /\ StandsOn(board, "R", "white", 0, 3)

\* no cell of the board holds a king of the colour
Kingless(b, color) ==
    \A i \in 0..63 : ~(CellAt(b, i).type = "K" /\ CellAt(b, i).color = color)

\* C37: on a board without a king of a colour, findKing does not return its
\* "no king" value as a normal result and isKingInCheck does not answer false.
C37_MissingKingIsAnError ==
    \A color \in {"white", "black"} :
        Kingless(board, color)
        => /\ findKing(board, color) # 0 - 1
           /\ isKingInCheck(board, color, {}) # "F"

\* the request as makeMove hands it to the validator, for the side given
AsMove(moveData, color) ==
    [fromRank |-> moveData.fromRank, fromFile |-> moveData.fromFile,
     toRank |-> moveData.toRank, toFile |-> moveData.toFile,
     promotion |-> moveData.promotion, color |-> color]

\* isMoveLegal leaves the board as it found it unless it caught an exception
LegalityAskedPurely(b, move) ==
    LET Pure(validation) ==
            validation.reason # "VALIDATION_ERROR" => validation.board = b
    IN Pure(isMoveLegal(b, move))

\* getAllLegalMoves leaves the board as it found it unless an exception was
\* thrown or caught on the way
AllMovesAskedPurely(b, color) ==
    LET Pure(all) == (~all.threw /\ ~all.caught) => all.board = b
    IN Pure(getAllLegalMoves(b, color))

\* C38: a call of isMoveLegal that returns with a reason other than
\* VALIDATION_ERROR, and a call of getAllLegalMoves in which no exception was
\* thrown or caught, leave the validator's board (cells, piece coordinates and
\* moved flags, castling rights, en-passant target, clocks) exactly as it was,
\* for accepted and rejected moves, the simulations of the disambiguation and
\* of the mate and stalemate detection included.
C38_QueriesLeaveTheBoard ==
    /\ \A moveData \in QueryRequests \ {NoData}, color \in {"white", "black"} :
           LegalityAskedPurely(board, AsMove(moveData, color))
    /\ \A color \in {"white", "black"} : AllMovesAskedPurely(board, color)

\* the rook on a2 is asked to c2 while its twin on e2 is pinned: the request is
\* found legal after the twin's move has been simulated for the notation, and
\* a request of the pinned twin is found to leave the king in check
C38_AskedWithSimulations ==
    LET Asked(free, pinned) ==
            /\ free.isValid /\ free.move.notation = <<"R", "c", "2">>
            /\ ~pinned.isValid /\ pinned.reason = "KING_IN_CHECK"
    IN /\ getPiece(board, 1, 0).type = "R" /\ getPiece(board, 1, 4).type = "R"
       /\ Asked(isMoveLegal(board, AsMove(a2c2, "white")),
                isMoveLegal(board, AsMove(Req(<<"e", "2">>, <<"c", "2">>), "white")))

\* C39: in every state reached through makeMove calls, a pawn whose moved flag
\* is false stands on the start rank of its colour and a king whose moved flag
\* is false stands on e1 (white) or e8 (black).
C39_UnmovedPiecesAtHome ==
    \A i \in 0..63 :
        /\ (CellAt(board, i).type = "P" /\ ~CellAt(board, i).hasMoved)
           => i \div 8 = (IF CellAt(board, i).color = "white" THEN 1 ELSE 6)
        /\ (CellAt(board, i).type = "K" /\ ~CellAt(board, i).hasMoved)
           => i = 8 * HomeRank(CellAt(board, i).color) + 4

\* the accepted move neither moves the king of the colour, nor starts from the
\* home corner of the colour on the side, nor lands on it
HomePiecesStay(color, side) ==
    LET rank == HomeRank(color)
        file == IF side = "queenside" THEN 0 ELSE 7
        mover == getPiece(board, last'.moveData.fromRank, last'.moveData.fromFile)
    IN /\ ~(mover.type = "K" /\ mover.color = color)
       /\ ~(last'.moveData.fromRank = rank /\ last'.moveData.fromFile = file)
       /\ ~(last'.moveData.toRank = rank /\ last'.moveData.toFile = file)

\* C40: a castling right that is set stays set after every accepted move in
\* which the king of that colour does not move, the rook of that corner does not
\* leave its home cell and nothing is captured on that cell; a rook that starts
\* from the a-file or the h-file on another rank does not clear it.
C40_RightKeptWhileHomePiecesStay ==
    [][Accepts
       => \A color \in {"white", "black"}, side \in {"kingside", "queenside"} :
              (board.castlingRights[color][side] /\ HomePiecesStay(color, side))
              => board'.castlingRights[color][side]]_vars

====
